---- MODULE Spec2Model ----
(***************************************************************************)
(* Model of stgroves/octokit-wrapper: the retry engine and request builder *)
(* (src/octokit-wrapper.js, src/unnamed/part_000) and the Task / TaskChain *)
(* orchestrator (src/executors/classes/task.js, taskChain.js).             *)
(*                                                                         *)
(* Three specifications share the variables:                               *)
(*   Spec      one caller that either runs a request (runWith) or runs a   *)
(*             chain of attached, label-unique Tasks (TaskChain.run);      *)
(*   SpecEdit  a caller editing one chain with addTask / removeTask /      *)
(*             insertBeforeTask / insertAfterTask.                         *)
(* Suspension points (await) separate the actions: everything between two  *)
(* awaits runs synchronously in JavaScript and is one action.              *)
(*                                                                         *)
(* Task signals go through the global dispatchEvent (task.js:80); the      *)
(* model takes the global object to be an EventTarget with NumObservers    *)
(* registered listeners.                                                   *)
(***************************************************************************)
EXTENDS Integers, Sequences, FiniteSets, TLC

\* ---------------------------------------------------------------- bounds
\* Tasks constructed by the caller.
NumTasks == 3
\* Largest retry count a caller configures.
MaxRetries == 3
\* Listeners registered on the global event target.
NumObservers == 2
\* Longest chain the editing caller builds.
MaxLen == 3
\* run() calls made in sequence on one chain.
MaxRuns == 2

\* ------------------------------------------------------ program constants
DefaultRetries == 3
DefaultInterval == 2000
MinInterval == 500
RequestMaxRetries == 3
RequestInterval == 2000
WrapperMaxRetries == 3
WrapperInterval == 2000
NotFound == 404

\* ----------------------------------------------------------------- values
\* An optional JavaScript value: {} is undefined / null, {v} is v.
Undefined == {}
Some(v) == {v}
The(o) == CHOOSE v \in o : TRUE

\* Every value that travels as a result or an error has the same shape.
Val(kind, code) == [kind |-> kind, code |-> code]
\* The value a successful action / remote call resolves to.
Data == Val("data", 0)
\* An error thrown by the remote call, carrying an HTTP status.
HttpError(status) == Val("http", status)
\* The error a caller-supplied stop-predicate substitutes for e.
Wrapped(e) == Val("wrapped", e.code)
\* TypeError raised by the runtime (a call on null or undefined).
TypeError == Val("TypeError", 0)
\* e.status of an error value: only remote errors carry one.
Status(e) == IF e.kind = "http" THEN Some(e.code) ELSE Undefined

\* What one attempt of the wrapped operation can do.
Outcomes == {"ok", "e404", "e500"}
Failed(o) == o # "ok"
Thrown(o) == IF o = "e404" THEN HttpError(NotFound) ELSE HttpError(500)

\* Stop-predicates a caller can configure: "never" = (e) => [false, e],
\* "wrap" = (e) => [true, wrapped e].
CallerPredicates == {"never", "wrap"}
Intervals == {MinInterval, DefaultInterval}

\* ------------------------------------------------------------ stop-predicate
\* The default predicate of both engines: (error) => [error.status === 404, error].
DefaultStopRetries(e) == <<Status(e) = Some(NotFound), e>>

\* A configured predicate applied to e: <<shouldStop, error>>.
ApplyStop(pred, e) ==
    CASE pred = "default" -> DefaultStopRetries(e)
      [] pred = "never"   -> <<FALSE, e>>
      [] pred = "wrap"    -> <<TRUE, Wrapped(e)>>

\* ------------------------------------------------------------- retry engine
\* new Error(`Request failed after ${maxRetries} attempts`)
RetryExhaustedError(maxRetries) == Val("exhausted", maxRetries)

\* while (attempt <= maxRetries)
RetryLoopGuard(attempt, maxRetries) == attempt <= maxRetries

RetryBudgetSpentOffByOne(attempt, maxRetries) == attempt > maxRetries
\* if (attempt >= maxRetries)
RetryBudgetSpent(attempt, maxRetries) == attempt >= maxRetries

\* const delay = interval * 2 ** (attempt - 1)
RetryDelay(interval, attempt) == interval * 2 ^ (attempt - 1)

Success(data) == [success |-> TRUE, val |-> data]
Failure(error) == [success |-> FALSE, val |-> error]

\* The catch block of runWithRetries in src/octokit-wrapper.js for the error
\* e of attempt `attempt`: no stop-predicate, only the budget.
WrapperCatch(policy, attempt, e) ==
    IF RetryBudgetSpent(attempt, policy.maxRetries)
    THEN [next |-> "return",
          result |-> Failure(RetryExhaustedError(policy.maxRetries)), delay |-> 0]
    ELSE [next |-> "sleep", result |-> Failure(e),
          delay |-> RetryDelay(policy.interval, attempt)]

\* The catch block of runWithRetries in part_000: the stop-predicate, then
\* the budget.  Calling a missing retryConfig.stopRetries is a TypeError
\* that rejects the promise.
RetryCatch(policy, attempt, e) ==
    IF policy.stopRetries = Undefined
    THEN [next |-> "reject", result |-> Failure(TypeError), delay |-> 0]
    ELSE LET verdict == ApplyStop(The(policy.stopRetries), e)
         IN  IF verdict[1]
             THEN [next |-> "return", result |-> Failure(verdict[2]), delay |-> 0]
             ELSE IF RetryBudgetSpent(attempt, policy.maxRetries)
             THEN [next |-> "return",
                   result |-> Failure(RetryExhaustedError(policy.maxRetries)),
                   delay |-> 0]
             ELSE [next |-> "sleep", result |-> Failure(e),
                   delay |-> RetryDelay(policy.interval, attempt)]

\* -------------------------------------------------------------------- Task
TaskIds == 1..NumTasks
\* A value that is not a Task instance (null, a plain object, a string).
NotATask == 0
IsTask(v) == v \in TaskIds
ChainIds == {"A", "B"}
\* The chain the running caller runs.
RunChain == "A"
\* Task.#chain = null
NoChain == "none"

Alphabet == <<"a", "b", "c", "d", "e", "f">>
Whitespace == {" ", "\t", "\n"}

\* string.isEmptyOrNull(label); a label is the sequence of its characters.
IsEmptyOrNull(l) == l = Undefined \/ Len(The(l)) = 0
\* /\s/.test(label)
HasWhitespace(l) == \E i \in 1..Len(l) : l[i] \in Whitespace

\* const { retries = 3, interval = 2000, stopRetries = ... } = this.#config
TaskRetries(cfg) == IF cfg.retries = Undefined THEN DefaultRetries ELSE The(cfg.retries)
TaskInterval(cfg) == IF cfg.interval = Undefined THEN DefaultInterval ELSE The(cfg.interval)
TaskStopRetries(cfg) == IF cfg.stopRetries = Undefined THEN "default" ELSE The(cfg.stopRetries)

\* Configurations the Task constructor accepts (task.js:56-66).
Configs ==
    [retries     : {Undefined} \cup {Some(n) : n \in 1..MaxRetries},
     interval    : {Undefined, Some(MinInterval)},
     stopRetries : {Undefined} \cup {Some(p) : p \in CallerPredicates}]

\* new Error(`Request failed after ${retries} attempts`)
TaskExhaustedError(retries) == Val("exhausted", retries)

\* while (attempt <= retries)
TaskLoopGuard(attempt, retries) == attempt <= retries

\* if (attempt >= retries)
TaskBudgetSpent(attempt, retries) == attempt >= retries

TaskDelayExponentOffByOne(interval, attempt) == interval * 2 ^ attempt
\* const delay = interval * 2 ** (attempt - 1)
TaskDelay(interval, attempt) == interval * 2 ^ (attempt - 1)

TaskCatchBudgetFirst(cfg, att, e) ==
    LET verdict == ApplyStop(TaskStopRetries(cfg), e)
    IN  IF TaskBudgetSpent(att, TaskRetries(cfg))
        THEN [next |-> "signal",
              error |-> TaskExhaustedError(TaskRetries(cfg)), delay |-> 0]
        ELSE IF verdict[1]
        THEN [next |-> "signal", error |-> verdict[2], delay |-> 0]
        ELSE [next |-> "sleep", error |-> e,
              delay |-> TaskDelay(TaskInterval(cfg), att)]
\* The catch block of Task.run for the error e of attempt att: either a
\* terminal failure (a taskError signal carrying `error`) or a backoff.
TaskCatch(cfg, att, e) ==
    LET verdict == ApplyStop(TaskStopRetries(cfg), e)
    IN  IF verdict[1]
        THEN [next |-> "signal", error |-> verdict[2], delay |-> 0]
        ELSE IF TaskBudgetSpent(att, TaskRetries(cfg))
        THEN [next |-> "signal",
              error |-> TaskExhaustedError(TaskRetries(cfg)), delay |-> 0]
        ELSE [next |-> "sleep", error |-> e,
              delay |-> TaskDelay(TaskInterval(cfg), att)]

\* What a listener does with detail.breakChain: nothing, or one call.
Decisions == {"none", "true", "false"}
DecisionValue(d) == d = "true"

\* customEvent.detail.breakChain(value): an equal value changes nothing;
\* a different one becomes the decision.  stopPropagation() does not keep
\* the remaining listeners of the same target from being called.
BreakChainCallback(stopChain, d) ==
    IF d = "none" \/ DecisionValue(d) = stopChain THEN stopChain ELSE DecisionValue(d)

RECURSIVE Notify(_, _, _)
\* dispatchEvent(customEvent): the listeners run in registration order.
Notify(stopChain, decisions, i) ==
    IF i > Len(decisions) THEN stopChain
    ELSE Notify(BreakChainCallback(stopChain, decisions[i]), decisions, i + 1)

DispatchIgnoresOverride(default, decisions) == default
\* The decision #dispatchEvent(event, context, stopChain = default) ends with.
Dispatch(default, decisions) == Notify(default, decisions, 1)

\* The last call of detail.breakChain made by a listener while the signal
\* was dispatched: "none" when no listener called it.
LastSaid(decisions) ==
    LET said == {i \in 1..Len(decisions) : decisions[i] # "none"}
    IN  IF said = {} THEN "none"
        ELSE decisions[CHOOSE i \in said : \A j \in said : j <= i]

\* The first call of detail.breakChain whose value differs from the signal's
\* default decision: "none" when no listener made such a call.
FirstEffective(default, decisions) ==
    LET eff == {i \in 1..Len(decisions) :
                   decisions[i] # "none" /\ DecisionValue(decisions[i]) # default}
    IN  IF eff = {} THEN "none"
        ELSE decisions[CHOOSE i \in eff : \A j \in eff : i <= j]

\* ------------------------------------------------------------------ state
VARIABLES
    builder,    \* the request builder the caller holds: source file, retryConfig
    req,        \* the runWithRetries call in flight
    label,      \* Task.#label of each Task
    config,     \* Task.#config of each Task
    owner,      \* Task.#chain of each Task (a chain, or NoChain)
    chain,      \* TaskChain.#chain of each chain: a sequence of Tasks
    stopChain,  \* TaskChain.#stopChain of each chain (Undefined until set)
    runState,   \* TaskChain.run: idle, running, completed, aborted, rejected
    pos,        \* index in the chain of the Task the driver loop is at
    pc,         \* Task.run: none, action (awaiting the action), timer, returned
    attempt,    \* Task.run's attempt counter
    outcomes,   \* outcomes of the current Task.run's settled attempts
    delays,     \* backoff delays the current Task.run has slept or is sleeping
    ret,        \* what the current Task.run settled with
    steps,      \* context.steps of the run: label -> recorded value
    started,    \* per Task: Task.run invocations in this chain run
    calls,      \* per Task: action invocations in this chain run
    signals,    \* the signals dispatched in this chain run, in order
    last,       \* the editing caller's last call and how it ended
    declared,   \* Task.#config.inputs of each Task (Undefined when absent)
    inputs,     \* the argument of run(inputs) and context.inputs of the run
    written,    \* the objects a listener has written into
    history,    \* the earlier runs of the chain: how many, and of the last one
                \* how it ended, the labels in its steps, the flag it left
    other,      \* a second run() call in flight on the same chain: its state,
                \* the index and position of the Task.run it awaits, whether
                \* a signal of it called breakChain, where the first call
                \* stood when it started
    got,        \* what the getInputs() / getInputTemplate() calls made so far
                \* returned, in call order
    made,       \* the `new Task(...)` calls made so far: arguments and outcome
    built,      \* the request builders a caller derived from `builder`, and
                \* how its last configuration call ended
    client      \* the closure of each client provider, and its calls so far

vars == <<builder, req, label, config, owner, chain, stopChain, runState, pos, pc,
          attempt, outcomes, delays, ret, steps, started, calls, signals, last,
          declared, inputs, written, history, other, got, made, built, client>>

reqVars == <<builder, req>>
\* What the synchronous calls outside a run have returned so far.
callVars == <<got, made, built, client>>
objVars == <<label, config, declared, owner, chain>>
runVars == <<stopChain, runState, pos, pc, attempt, outcomes, delays, ret, steps,
             started, calls, signals, inputs, written, history, other>>

IdleReq ==
    [state |-> "idle", impl |-> "none",
     policy |-> [maxRetries |-> 0, interval |-> 0, stopRetries |-> Undefined],
     propertyName |-> Undefined,
     attempt |-> 0, calls |-> 0, outcomes |-> <<>>, delays |-> <<>>,
     result |-> Undefined]

NoRet == [kind |-> "none", ok |-> FALSE, val |-> Val("pending", 0)]
NoCall ==
    [op |-> "none", c |-> "none", task |-> 0, label |-> Undefined, threw |-> FALSE,
     before |-> <<>>, ownerBefore |-> "none"]

\* No second run() call is in flight.
NoOther == [state |-> "idle", pos |-> 0, pc |-> "none", broke |-> FALSE,
            startedAt |-> <<0, "none">>]

\* No earlier run() call on the chain.
NoHistory == [runs |-> 0, state |-> "none", labels |-> {}, flag |-> Undefined]

\* run was not called: no argument, no context.
NoInputs == [arg |-> Undefined, context |-> Undefined]

\* Before the first run(): no context, no earlier run, no second call.
InitRun ==
    /\ inputs = NoInputs
    /\ written = {}
    /\ history = NoHistory
    /\ other = NoOther
    /\ got = <<>>
    /\ made = <<>>
    /\ built = <<>>
    /\ client = <<>>

\* No request was created: the caller works with Tasks and chains.
NoBuilder ==
    [impl |-> "none", retryConfig |-> IdleReq.policy, propertyName |-> Undefined]

\* createRequest(restQuery, queryObject): the initial builder of each source file.
CreateRequest(impl) ==
    IF impl = "part_000"
    THEN [impl |-> impl,
          retryConfig |-> [maxRetries |-> RequestMaxRetries,
                           interval |-> RequestInterval,
                           stopRetries |-> Some("default")],
          propertyName |-> Undefined]
    ELSE [impl |-> impl,
          retryConfig |-> [maxRetries |-> WrapperMaxRetries,
                           interval |-> WrapperInterval,
                           stopRetries |-> Undefined],
          propertyName |-> Undefined]

\* --------------------------------------------------------- request builder
CallerIdle == req.state = "idle" /\ runState = "idle"
HoldsBuilder == CallerIdle /\ builder # NoBuilder

\* withRetries: maxRetries => buildRequest(state, { ...retryConfig, maxRetries })
WithRetries(n) ==
    /\ HoldsBuilder
    /\ builder' = [builder EXCEPT !.retryConfig.maxRetries = n]
    /\ UNCHANGED <<req, objVars, callVars, runVars, last>>

\* withInterval: interval => buildRequest(state, { ...retryConfig, interval })
WithInterval(i) ==
    /\ HoldsBuilder
    /\ builder' = [builder EXCEPT !.retryConfig.interval = i]
    /\ UNCHANGED <<req, objVars, callVars, runVars, last>>

\* withRetryBreaker: callback => buildRequest(state, { ...retryConfig, stopRetries: callback })
\* (part_000 only: the octokit-wrapper.js builder has no such method).
WithRetryBreaker(p) ==
    /\ HoldsBuilder
    /\ builder.impl = "part_000"
    /\ builder' = [builder EXCEPT !.retryConfig.stopRetries = Some(p)]
    /\ UNCHANGED <<req, objVars, callVars, runVars, last>>

\* withProperty: propertyName => buildRequest({ ...state, propertyName }, retryConfig)
WithProperty(p) ==
    /\ HoldsBuilder
    /\ builder' = [builder EXCEPT !.propertyName = p]
    /\ UNCHANGED <<req, objVars, callVars, runVars, last>>

\* runWith -> attemptRequest -> runWithRetries, up to the first await: the
\* callback is invoked when the loop guard lets attempt 1 in.
RunWith ==
    /\ HoldsBuilder
    /\ LET policy == builder.retryConfig
           enters == RetryLoopGuard(1, policy.maxRetries)
       IN  req' = [state |-> IF enters THEN "await" ELSE "resolved",
                   impl |-> builder.impl, policy |-> policy,
                   propertyName |-> builder.propertyName, attempt |-> 1,
                   calls |-> IF enters THEN 1 ELSE 0,
                   outcomes |-> <<>>, delays |-> <<>>, result |-> Undefined]
    /\ UNCHANGED <<builder, objVars, callVars, runVars, last>>

\* The remote call resolves with a payload that lacks a field.
NoField == "okNoField"
\* new Error(`Property "${requestData.propertyName}" not found in response.`)
MissingProperty == Val("missing", 0)

\* request(octokit, requestData) throws: the remote call did, or a
\* propertyName is set and the payload has no such field.
RequestFails(propertyName, o) ==
    IF o = NoField THEN propertyName # Undefined ELSE Failed(o)
\* What it throws then.
RequestThrown(propertyName, o) ==
    IF o = NoField THEN MissingProperty ELSE Thrown(o)

\* await callback() settles, the remote call having had outcome o.
RetrySettle(o) ==
    /\ req.state = "await"
    /\ LET e == RequestThrown(req.propertyName, o)
           c == IF req.impl = "part_000"
                THEN RetryCatch(req.policy, req.attempt, e)
                ELSE WrapperCatch(req.policy, req.attempt, e)
       IN  req' =
             IF ~RequestFails(req.propertyName, o)
             THEN [req EXCEPT !.state = "resolved", !.result = Some(Success(Data)),
                              !.outcomes = Append(@, o)]
             ELSE IF c.next = "sleep"
             THEN [req EXCEPT !.state = "timer", !.outcomes = Append(@, o),
                              !.delays = Append(@, c.delay)]
             ELSE [req EXCEPT !.state = IF c.next = "reject" THEN "rejected" ELSE "resolved",
                              !.result = Some(c.result),
                              !.outcomes = Append(@, o)]
    /\ UNCHANGED <<builder, objVars, callVars, runVars, last>>

\* The backoff timer fires: attempt++, and the loop guard decides on a new call.
RetryTimer ==
    /\ req.state = "timer"
    /\ LET enters == RetryLoopGuard(req.attempt + 1, req.policy.maxRetries)
       IN  req' = [req EXCEPT !.attempt = @ + 1,
                              !.state = IF enters THEN "await" ELSE "resolved",
                              !.calls = IF enters THEN @ + 1 ELSE @]
    /\ UNCHANGED <<builder, objVars, callVars, runVars, last>>

\* ------------------------------------------------------- TaskChain.run
\* What the registered listeners do with one signal, in registration order.
ObserverDecisions == [1..NumObservers -> Decisions]
Quiet == [i \in 1..NumObservers |-> "none"]

\* if (this.#stopChain): undefined and false are falsy.
Truthy(flag) == flag = Some(TRUE)

\* The record of one dispatched signal: its Task, type and detail, whether
\* some listener called breakChain with a value other than the decision it
\* found, and whether the last call of breakChain (if any) carried a value
\* other than the signal's default.
Signal(t, type, detail, default, decisions) ==
    [task |-> t, type |-> type, detail |-> detail,
     overridden |-> FirstEffective(default, decisions) # "none",
     lastOverrides |-> LET said == LastSaid(decisions)
                       IN  said # "none" /\ DecisionValue(said) # default]

\* Task.run(context) up to its first await, for the Task at index i: the
\* attempt counter starts at 1 and the action is invoked when the loop
\* guard lets the attempt in; otherwise run resolves to undefined.
\* st and cl count the Task.run and action invocations of this chain run.
EnterTaskFrom(i, st, cl) ==
    LET t == chain[RunChain][i]
        enters == TaskLoopGuard(1, TaskRetries(config[t]))
    IN  /\ pos' = i
        /\ attempt' = 1
        /\ outcomes' = <<>>
        /\ delays' = <<>>
        /\ started' = [st EXCEPT ![t] = @ + 1]
        /\ calls' = IF enters THEN [cl EXCEPT ![t] = @ + 1] ELSE cl
        /\ pc' = IF enters THEN "action" ELSE "returned"
        /\ ret' = IF enters THEN NoRet ELSE [NoRet EXCEPT !.kind = "undefined"]

EnterTask(i) == EnterTaskFrom(i, started, calls)

\* No Task of the chain run has been invoked yet.
NoneInvoked == [t \in TaskIds |-> 0]

FlagAtRunStartStale(flag) == flag
\* this.#stopChain = false
FlagAtRunStart(flag) == Some(FALSE)

StepsAtRunStartKept(old) == old
\* const context = { inputs, steps: {} }: steps is a fresh, empty mapping.
StepsAtRunStart(old) == [l \in {} |-> Data]

\* const context = { inputs, steps: {} }: inputs is the caller's argument.
ContextInputs(supplied) == supplied

\* run(inputs) up to its first await: a fresh context, the abort flag reset,
\* then the first Task.
BeginRun(supplied) ==
    /\ stopChain' = [stopChain EXCEPT ![RunChain] = FlagAtRunStart(@)]
    /\ steps' = StepsAtRunStart(steps)
    /\ inputs' = [arg |-> supplied, context |-> ContextInputs(supplied)]
    /\ signals' = <<>>
    /\ written' = {}
    /\ IF Len(chain[RunChain]) = 0
       THEN /\ runState' = "completed"
            /\ started' = NoneInvoked
            /\ calls' = NoneInvoked
            /\ UNCHANGED <<pos, pc, attempt, outcomes, delays, ret>>
       ELSE /\ runState' = "running"
            /\ EnterTaskFrom(1, NoneInvoked, NoneInvoked)

\* The promise of the last run() call has settled.
RunEnded == runState \in {"completed", "aborted", "rejected"}

\* The first run() of the chain, called without inputs.
StartRun ==
    /\ CallerIdle
    /\ BeginRun(Undefined)
    /\ UNCHANGED <<reqVars, objVars, callVars, last, history, other>>

SuccessStopDefaultAborts == TRUE
\* this.#dispatchEvent('taskSuccess', { result }, false)
SuccessStopDefault == FALSE
\* #dispatchEvent(event, context, stopChain = true)
ErrorStopDefault == TRUE

\* The object the action of Task t resolved or rejected with, and the copy
\* of it made for the listeners of its signal.
ResultRef(t) == <<"result", t>>
CopyRef(t) == <<"copy", t>>

\* object.deepClone(x): a new object, equal to x in content.
DeepClone(ref) == CopyRef(ref[2])

DetailContextLive(ref) == ref
\* detail: { task: this, context: object.deepClone(context) }
DetailContext(ref) == DeepClone(ref)

\* Whether the taskSuccess signal of Task t, decided by the listeners as d1,
\* throws: this.#chain.breakChain() on a Task whose #chain is null.
SuccessSignalThrows(t, d1) ==
    Dispatch(SuccessStopDefault, d1) /\ owner[t] = NoChain

\* The error the catch block of Task.run receives: the action's, or the
\* TypeError of the taskSuccess signal (dispatched inside the try).
Caught(o) == IF Failed(o) THEN Thrown(o) ELSE TypeError

\* Listeners act only on a signal that is dispatched.
SuccessListeners(o) == IF Failed(o) THEN {Quiet} ELSE ObserverDecisions
ErrorListeners(t, o, d1) ==
    IF /\ Failed(o) \/ SuccessSignalThrows(t, d1)
       /\ TaskCatch(config[t], attempt, Caught(o)).next = "signal"
    THEN ObserverDecisions
    ELSE {Quiet}

\* await this.#action(context) settles with outcome o; d1 and d2 are what
\* the listeners do with the taskSuccess and the taskError signal.
\*   success: #dispatchEvent('taskSuccess', {result}, false) inside the try,
\*     so a TypeError of this.#chain.breakChain() on a detached Task lands
\*     in the catch block like a failure of the action;
\*   catch: stop-predicate, budget, then a taskError signal or a backoff.
Settle(t, o, d1, d2, w) ==
    LET detached == owner[t] = NoChain
        okSignal == Signal(t, "taskSuccess", Data, SuccessStopDefault, d1)
        inCatch == Failed(o) \/ SuccessSignalThrows(t, d1)
        c == TaskCatch(config[t], attempt, Caught(o))
        errSignal == Signal(t, "taskError", c.error, ErrorStopDefault, d2)
        terminal == inCatch /\ c.next = "signal"
        okStop == Dispatch(SuccessStopDefault, d1)
        errStop == Dispatch(ErrorStopDefault, d2)
        errThrows == terminal /\ errStop /\ detached
        breaks == \/ ~Failed(o) /\ okStop /\ ~detached
                  \/ terminal /\ errStop /\ ~detached
    IN  /\ outcomes' = Append(outcomes, o)
        /\ written' = IF w THEN written \cup {DetailContext(ResultRef(t))}
                       ELSE written
        /\ signals' = signals
                         \o (IF Failed(o) THEN <<>> ELSE <<okSignal>>)
                         \o (IF terminal THEN <<errSignal>> ELSE <<>>)
        /\ stopChain' = IF breaks
                        THEN [stopChain EXCEPT ![owner[t]] = Some(TRUE)]
                        ELSE stopChain
        /\ IF ~inCatch
           THEN /\ pc' = "returned"
                /\ ret' = [kind |-> "pair", ok |-> TRUE, val |-> Data]
                /\ delays' = delays
           ELSE IF c.next = "sleep"
           THEN /\ pc' = "timer"
                /\ ret' = ret
                /\ delays' = Append(delays, c.delay)
           ELSE /\ pc' = "returned"
                /\ ret' = IF errThrows
                          THEN [kind |-> "threw", ok |-> FALSE, val |-> TypeError]
                          ELSE [kind |-> "pair", ok |-> FALSE, val |-> c.error]
                /\ delays' = delays

\* Whether a listener writes into the context it was handed: only a signal
\* that is dispatched hands one out.
ListenerWrites(t, o, d1, d2, writers) ==
    IF d1 # Quiet \/ d2 # Quiet \/ ~Failed(o)
          \/ TaskCatch(config[t], attempt, Caught(o)).next = "signal"
    THEN writers
    ELSE {FALSE}

\* writers: {FALSE} when no listener writes into what it is handed.
SettleWith(writers) ==
    /\ runState = "running"
    /\ pc = "action"
    /\ LET t == chain[RunChain][pos]
       IN  \E o \in Outcomes :
           \E d1 \in SuccessListeners(o) :
           \E d2 \in ErrorListeners(t, o, d1) :
           \E w \in ListenerWrites(t, o, d1, d2, writers) : Settle(t, o, d1, d2, w)
    /\ UNCHANGED <<reqVars, objVars, callVars, runState, pos, attempt, steps, started, calls,
                   last, inputs, history, other>>

TaskSettle == SettleWith({FALSE})

\* The backoff timer fires: attempt++, and the loop guard decides on a new call.
TaskTimer ==
    /\ runState = "running"
    /\ pc = "timer"
    /\ LET t == chain[RunChain][pos]
           enters == TaskLoopGuard(attempt + 1, TaskRetries(config[t]))
       IN  /\ attempt' = attempt + 1
           /\ calls' = IF enters THEN [calls EXCEPT ![t] = @ + 1] ELSE calls
           /\ pc' = IF enters THEN "action" ELSE "returned"
           /\ ret' = IF enters THEN ret ELSE [NoRet EXCEPT !.kind = "undefined"]
    /\ UNCHANGED <<reqVars, objVars, callVars, stopChain, runState, pos, outcomes, delays,
                   steps, started, signals, last, inputs, written, history, other>>

\* context.steps[task.getName()] = result
RecordStep(s, l, r) ==
    [k \in DOMAIN s \cup {l} |-> IF k = l THEN r.val ELSE s[k]]

AbortCheckIgnoresFlag(flag) == FALSE
\* if (this.#stopChain) return;
AbortCheck(flag) == Truthy(flag)

NextIndexRepeats(i) == i
\* for (const task of this.#chain): the member after the one at index i.
NextIndex(i) == i + 1

\* The driver loop resumes after `await task.run(context)`: records the
\* result, checks the abort flag, then enters the next Task or ends.  A
\* rejected or undefined Task.run rejects the chain run (the destructuring
\* of undefined is a TypeError).
DriverResume ==
    /\ runState = "running"
    /\ pc = "returned"
    /\ IF ret.kind # "pair"
       THEN /\ runState' = "rejected"
            /\ pc' = "none"
            /\ UNCHANGED <<pos, attempt, outcomes, delays, ret, steps, started, calls>>
       ELSE /\ steps' = RecordStep(steps, label[chain[RunChain][pos]], ret)
            /\ IF AbortCheck(stopChain[RunChain])
               THEN /\ runState' = "aborted"
                    /\ pc' = "none"
                    /\ UNCHANGED <<pos, attempt, outcomes, delays, ret, started, calls>>
               ELSE IF pos < Len(chain[RunChain])
               THEN /\ runState' = "running"
                    /\ EnterTask(NextIndex(pos))
               ELSE /\ runState' = "completed"
                    /\ pc' = "none"
                    /\ UNCHANGED <<pos, attempt, outcomes, delays, ret, started, calls>>
    /\ UNCHANGED <<reqVars, objVars, callVars, stopChain, signals, last, inputs, written,
                   history, other>>

\* --------------------------------------------------------------- Spec
\* The caller has constructed either a request builder (createRequest of one
\* of the two source files) or NumTasks Tasks with distinct labels, the first
\* m of them added to the chain in order.  All Tasks of one behaviour are
\* constructed with the same configuration.
DefaultConfig == [retries |-> Undefined, interval |-> Undefined, stopRetries |-> Undefined]
\* { retries: 1 }: a budget of one attempt.
SingleAttempt == [DefaultConfig EXCEPT !.retries = Some(1)]

Init ==
    /\ \/ /\ builder \in {CreateRequest("wrapper"), CreateRequest("part_000")}
          /\ config = [t \in TaskIds |-> DefaultConfig]
          /\ chain = [c \in ChainIds |-> <<>>]
          /\ owner = [t \in TaskIds |-> NoChain]
       \/ /\ builder = NoBuilder
          /\ \E cfg \in Configs : config = [t \in TaskIds |-> cfg]
          /\ \E m \in 1..NumTasks :
                /\ chain = [c \in ChainIds |->
                              IF c = RunChain THEN [i \in 1..m |-> i] ELSE <<>>]
                /\ owner = [t \in TaskIds |-> IF t <= m THEN RunChain ELSE NoChain]
    /\ req = IdleReq
    /\ label = [t \in TaskIds |-> <<Alphabet[t]>>]
    /\ stopChain = [c \in ChainIds |-> Undefined]
    /\ runState = "idle"
    /\ pos = 0
    /\ pc = "none"
    /\ attempt = 0
    /\ outcomes = <<>>
    /\ delays = <<>>
    /\ ret = NoRet
    /\ steps = [l \in {} |-> Data]
    /\ started = [t \in TaskIds |-> 0]
    /\ calls = [t \in TaskIds |-> 0]
    /\ signals = <<>>
    /\ last = NoCall
    /\ declared = [t \in TaskIds |-> Undefined]
    /\ InitRun

Next ==
    \/ \E n \in 1..MaxRetries : WithRetries(n)
    \/ \E i \in Intervals : WithInterval(i)
    \/ \E p \in CallerPredicates : WithRetryBreaker(p)
    \/ RunWith
    \/ \E o \in Outcomes : RetrySettle(o)
    \/ RetryTimer
    \/ StartRun
    \/ TaskSettle
    \/ TaskTimer
    \/ DriverResume

Spec == Init /\ [][Next]_vars

\* ------------------------------------------------- retry engine: claims
\* The runWithRetries call has settled / the current Task.run has settled.
ReqDone == req.state \in {"resolved", "rejected"}
TaskDone == runState # "idle" /\ pc \in {"returned", "none"} /\ pos >= 1
CurrentTask == chain[RunChain][pos]

\* Whether the stop-predicate of the engine signals stop on outcome o.
ReqStops(o) ==
    /\ Failed(o)
    /\ req.impl = "part_000"
    /\ req.policy.stopRetries # Undefined
    /\ ApplyStop(The(req.policy.stopRetries), Thrown(o))[1]
TaskStops(o) ==
    /\ Failed(o)
    /\ ApplyStop(TaskStopRetries(config[CurrentTask]), Thrown(o))[1]

\* Every attempt so far failed and the stop-predicate never signalled stop.
ReqAlwaysFailedNeverStopped ==
    /\ Len(req.outcomes) >= 1
    /\ \A i \in 1..Len(req.outcomes) :
          Failed(req.outcomes[i]) /\ ~ReqStops(req.outcomes[i])
TaskAlwaysFailedNeverStopped ==
    /\ Len(outcomes) >= 1
    /\ \A i \in 1..Len(outcomes) : Failed(outcomes[i]) /\ ~TaskStops(outcomes[i])

IsExhaustedError(e, n) == e.kind = "exhausted" /\ e.code = n

\* C1: with maxRetries = n >= 1, an operation that fails on every attempt
\* under a stop-predicate that never signals stop is invoked exactly n times,
\* and the call then returns a Failure whose error is the synthesized
\* "failed after n attempts" error naming n (runWithRetries and Task.run).
C1_ExhaustedAfterN ==
    /\ (ReqDone /\ ReqAlwaysFailedNeverStopped)
          => /\ req.calls = req.policy.maxRetries
             /\ req.state = "resolved"
             /\ req.result # Undefined
             /\ ~The(req.result).success
             /\ IsExhaustedError(The(req.result).val, req.policy.maxRetries)
    /\ (TaskDone /\ TaskAlwaysFailedNeverStopped)
          => /\ calls[CurrentTask] = TaskRetries(config[CurrentTask])
             /\ ret.kind = "pair"
             /\ ~ret.ok
             /\ IsExhaustedError(ret.val, TaskRetries(config[CurrentTask]))

C1_Witness ==
    /\ ReqDone
    /\ req.policy.maxRetries = 3
    /\ req.calls = 3
    /\ ReqAlwaysFailedNeverStopped
    /\ req.result = Some(Failure(Val("exhausted", 3)))

\* C2: if the stop-predicate first signals stop on the failure of attempt k
\* (k <= n), the operation is invoked exactly k times, never k + 1, and the
\* returned Failure carries the error the predicate chose; also when k = n,
\* where the predicate's error wins over the exhausted-retries error.
C2_StopAtK ==
    /\ \A k \in 1..Len(req.outcomes) :
          ReqStops(req.outcomes[k]) =>
             /\ Len(req.outcomes) = k
             /\ req.calls = k
             /\ req.state = "resolved"
             /\ req.result = Some(Failure(
                   ApplyStop(The(req.policy.stopRetries), Thrown(req.outcomes[k]))[2]))
    /\ (runState # "idle" /\ pos >= 1) =>
          \A k \in 1..Len(outcomes) :
             TaskStops(outcomes[k]) =>
                /\ Len(outcomes) = k
                /\ calls[CurrentTask] = k
                /\ TaskDone
                /\ ret = [kind |-> "pair", ok |-> FALSE,
                          val |-> ApplyStop(TaskStopRetries(config[CurrentTask]),
                                            Thrown(outcomes[k]))[2]]

\* The predicate stops on the last attempt of a budget of two: k = n = 2.
C2_Witness ==
    /\ TaskDone
    /\ TaskRetries(config[CurrentTask]) = 2
    /\ outcomes = <<"e500", "e404">>
    /\ TaskStops(outcomes[2])
    /\ calls[CurrentTask] = 2
    /\ ret.val = HttpError(404)

\* The delays of one retry run, given its interval, its invocation count and
\* whether it is sleeping: the i-th delay is interval * 2^(i-1), one delay
\* between two consecutive attempts and none before the first or after the last.
BackoffShape(ds, interval, ncalls, sleeping) ==
    /\ \A i \in 1..Len(ds) : ds[i] = interval * 2 ^ (i - 1)
    /\ ncalls = 0 => ds = <<>>
    /\ ncalls >= 1 => Len(ds) = IF sleeping THEN ncalls ELSE ncalls - 1

\* C3: the delay slept before attempt i + 1 is intervalMs * 2^(i-1); nothing
\* is slept before the first attempt or after the last, so a run of a
\* attempts sleeps a - 1 times and maxRetries = 1 never sleeps.
C3_Backoff ==
    /\ BackoffShape(req.delays, req.policy.interval, req.calls, req.state = "timer")
    /\ req.policy.maxRetries = 1 => req.delays = <<>>
    /\ (runState # "idle" /\ pos >= 1) =>
          /\ BackoffShape(delays, TaskInterval(config[CurrentTask]),
                          calls[CurrentTask], pc = "timer")
          /\ TaskRetries(config[CurrentTask]) = 1 => delays = <<>>

C3_Witness ==
    /\ TaskDone
    /\ calls[CurrentTask] = 3
    /\ delays = <<500, 1000>>

\* C4: under the default policy a request of createRequest, or a Task, whose
\* operation fails with status 404 stops after one attempt without backoff
\* and returns that error unchanged; other statuses are retried up to 3 times.
C4_DefaultPolicyStopsOn404 ==
    /\ (req.state # "idle" /\ req.policy = CreateRequest(req.impl).retryConfig
        /\ Len(req.outcomes) >= 1) =>
          /\ req.outcomes[1] = "e404" =>
                /\ req.calls = 1
                /\ req.delays = <<>>
                /\ req.result = Some(Failure(HttpError(404)))
          /\ req.outcomes[1] = "e500" => (ReqDone => req.calls > 1)
          /\ req.calls <= 3
    /\ (runState # "idle" /\ pos >= 1 /\ config[CurrentTask] = DefaultConfig
        /\ Len(outcomes) >= 1) =>
          /\ outcomes[1] = "e404" =>
                /\ calls[CurrentTask] = 1
                /\ delays = <<>>
                /\ ret = [kind |-> "pair", ok |-> FALSE, val |-> HttpError(404)]
          /\ outcomes[1] = "e500" => (TaskDone => calls[CurrentTask] > 1)
          /\ calls[CurrentTask] <= 3

\* ----------------------------------------------------- chain run: claims
Members == chain[RunChain]
LabelsUpTo(k) == {label[Members[i]] : i \in 1..k}
\* The listeners' last word on a signal: a success signal is told to let the
\* run go on, a failure signal to abort, or nothing at all.
LeftAsDefault(sig) == ~sig.lastOverrides
ToldToContinue(sig) ==
    IF sig.type = "taskSuccess" THEN ~sig.lastOverrides ELSE sig.lastOverrides
\* The value of the first effective override of a signal: true on a success
\* signal (whose default is false), false on a failure signal.
FirstOverrideValue(sig) == sig.type = "taskSuccess"
NoOverride == \A i \in 1..Len(signals) : LeftAsDefault(signals[i])
Failures == {i \in 1..Len(signals) : signals[i].type = "taskError"}
\* Index in the chain of the Task a signal came from (labels are unique).
IndexOf(t) == CHOOSE i \in 1..Len(Members) : Members[i] = t
\* The Tasks started so far are a prefix of the chain, each started once.
StartedInOrder ==
    \A i \in 1..Len(Members) :
        /\ started[Members[i]] <= 1
        /\ started[Members[i]] = 1 => \A j \in 1..i : started[Members[j]] = 1

\* C5: in a run without observer override, if Tk is the first Task whose run
\* ends in terminal failure, the actions of Tk+1..Tm are never invoked, and
\* once the run has ended it is Aborted with context.steps holding exactly
\* the labels of T1..Tk, Tk's entry being its error.
C5_FailureAborts ==
    (NoOverride /\ Failures # {}) =>
        LET f == signals[CHOOSE i \in Failures : \A j \in Failures : i <= j]
            k == IndexOf(f.task)
        IN  /\ \A j \in (k + 1)..Len(Members) :
                  calls[Members[j]] = 0 /\ started[Members[j]] = 0
            /\ runState \in {"running", "aborted"}
            /\ RunEnded => /\ DOMAIN steps = LabelsUpTo(k)
                           /\ steps[label[f.task]] = f.detail

\* The second of three Tasks failed: two entries, the third never invoked.
C5_Witness ==
    /\ Len(Members) = 3
    /\ runState = "aborted"
    /\ NoOverride
    /\ Len(signals) = 2
    /\ signals[1].type = "taskSuccess"
    /\ signals[2].type = "taskError"
    /\ DOMAIN steps = {label[1], label[2]}
    /\ calls[3] = 0

\* C6: a failure signal whose abort decision an observer overrides to false
\* does not set the chain's abort flag, so the run does not stop at that
\* Task; when no signal of the run ends with an abort decision, the Tasks run
\* in order, once each, and context.steps ends with one entry per Task.
C6_OverrideContinues ==
    /\ \A i \in Failures :
          signals[i].lastOverrides =>
             LET k == IndexOf(signals[i].task)
             IN  /\ (pos = k /\ pc = "returned") => stopChain[RunChain] = Some(FALSE)
                 /\ ~(runState = "aborted" /\ pos = k)
                 /\ (RunEnded /\ k < Len(Members)) => started[Members[k + 1]] = 1
    /\ StartedInOrder
    /\ (RunEnded /\ \A i \in 1..Len(signals) : ToldToContinue(signals[i])) =>
          /\ runState = "completed"
          /\ DOMAIN steps = LabelsUpTo(Len(Members))
          /\ \A i \in 1..Len(Members) : started[Members[i]] = 1

\* The second of three Tasks failed, the override let the third run.
C6_Witness ==
    /\ Len(Members) = 3
    /\ runState = "completed"
    /\ Len(signals) = 3
    /\ signals[2].type = "taskError"
    /\ signals[2].lastOverrides
    /\ started[3] = 1
    /\ DOMAIN steps = {label[1], label[2], label[3]}

OnlySuccesses == \A i \in 1..Len(signals) : signals[i].type = "taskSuccess"

\* C7: while every Task ends in terminal success and no observer overrides
\* a signal, the abort flag is never set; the Tasks run once each in chain
\* order, and the run ends Completed with one steps entry per Task.
C7_SuccessCompletes ==
    (runState # "idle" /\ NoOverride /\ OnlySuccesses) =>
        /\ stopChain[RunChain] = Some(FALSE)
        /\ runState \in {"running", "completed"}
        /\ StartedInOrder
        /\ Len(signals) <= Len(Members)
        /\ \A i \in 1..Len(signals) : signals[i].task = Members[i]
        /\ runState = "completed" =>
              /\ Len(signals) = Len(Members)
              /\ DOMAIN steps = LabelsUpTo(Len(Members))
              /\ \A i \in 1..Len(Members) :
                    started[Members[i]] = 1 /\ steps[label[Members[i]]] = Data

\* Three Tasks succeeded, the second on its retry.
C7_Witness ==
    /\ Len(Members) = 3
    /\ runState = "completed"
    /\ NoOverride
    /\ OnlySuccesses
    /\ Len(signals) = 3
    /\ calls[2] = 2
    /\ DOMAIN steps = {label[1], label[2], label[3]}

\* C19: within one chain run the Tasks execute in the chain's order, without
\* overlap and without chain-level retry: each Task's run is invoked at most
\* once, a later Task's action is invoked only after every earlier Task's
\* run has returned and its result is recorded in context.steps, and only
\* the Task the driver awaits can have its action in flight.
C19_StrictSequence ==
    runState # "idle" =>
        /\ \A i \in 1..Len(Members) :
              /\ started[Members[i]] <= 1
              /\ i > pos => started[Members[i]] = 0 /\ calls[Members[i]] = 0
              /\ i < pos => /\ started[Members[i]] = 1
                            /\ label[Members[i]] \in DOMAIN steps
                            /\ \E k \in 1..Len(signals) : signals[k].task = Members[i]
        /\ pc \in {"action", "timer"} =>
              /\ label[CurrentTask] \notin DOMAIN steps
              /\ \A k \in 1..Len(signals) : signals[k].task # CurrentTask

\* The second of three Tasks is between two attempts: the first is recorded,
\* the third was never invoked.
C19_Witness ==
    /\ Len(Members) = 3
    /\ pos = 2
    /\ pc = "timer"
    /\ DOMAIN steps = {label[1]}
    /\ calls[2] = 1
    /\ started[3] = 0

\* C16: once a listener of a signal calls the abort override with a value
\* different from the current decision, that first effective override alone
\* decides whether the signal sets the owning chain's abort flag: when the
\* Task's run has returned, the flag is set exactly if that override said true.
C16_FirstOverrideDecides ==
    (runState = "running" /\ pc = "returned" /\ signals # <<>>
        /\ signals[Len(signals)].overridden) =>
            stopChain[RunChain] = Some(FirstOverrideValue(signals[Len(signals)]))

\* ------------------------------------------------------ TaskChain editing
\* this.#chain.findIndex((x) => x.getName() === label): 0-based, -1 if none.
FindIndex(seq, l) ==
    LET hits == {i \in 1..Len(seq) : IsTask(seq[i]) /\ label[seq[i]] = l}
    IN  IF hits = {} THEN -1 ELSE (CHOOSE i \in hits : \A j \in hits : i <= j) - 1

\* x.getName() on a member that is not a Task is a TypeError: findIndex
\* throws when it reaches such a member before it reaches a match.
FindIndexThrows(seq, l) ==
    \E i \in 1..Len(seq) :
        /\ ~IsTask(seq[i])
        /\ \A j \in 1..(i - 1) : IsTask(seq[j]) => label[seq[j]] # l

\* this.#chain.indexOf(task): 0-based, -1 if none.
IndexOfTask(seq, t) ==
    LET hits == {i \in 1..Len(seq) : seq[i] = t}
    IN  IF hits = {} THEN -1 ELSE (CHOOSE i \in hits : \A j \in hits : i <= j) - 1

FindByLabelNeverThrows(seq, l) == FALSE
\* #findByLabel: if (idx === -1) throw new Error(`${label} cannot be found!`)
FindByLabelThrows(seq, l) == FindIndexThrows(seq, l) \/ FindIndex(seq, l) = -1

\* #validateTask: `!task instanceof Task` is `(!task) instanceof Task`, and a
\* boolean is an instance of nothing.
ValidateTaskThrows(t) == FALSE

\* #validateLabel(label)
ValidateLabelThrows(l) == IsEmptyOrNull(l) \/ HasWhitespace(The(l))

\* Array.prototype.splice(start, 0, item): a negative start counts from the
\* end, and start is clamped to [0, length].
SpliceInsert(seq, start, item) ==
    LET n == Len(seq)
        s == IF start < 0 THEN (IF n + start < 0 THEN 0 ELSE n + start)
             ELSE IF start > n THEN n ELSE start
    IN  SubSeq(seq, 1, s) \o <<item>> \o SubSeq(seq, s + 1, n)

\* Array.prototype.splice(idx, 1) for 0 <= idx < length.
SpliceRemove(seq, idx) == SubSeq(seq, 1, idx) \o SubSeq(seq, idx + 2, Len(seq))

\* task.#chain of the value t: a value that is not a Task has none.
OwnerOf(t) == IF IsTask(t) THEN owner[t] ELSE NoChain

Called(op, c, t, l, threw) ==
    [op |-> op, c |-> c, task |-> t, label |-> l, threw |-> threw,
     before |-> chain[c], ownerBefore |-> OwnerOf(t)]

\* task.setChain(c) after the sequence was changed: on a value that is not a
\* Task the call is a TypeError, which the caller of op receives.
SetChain(op, c, t, l, to) ==
    IF IsTask(t)
    THEN /\ owner' = [owner EXCEPT ![t] = to]
         /\ last' = Called(op, c, t, l, FALSE)
    ELSE /\ owner' = owner
         /\ last' = Called(op, c, t, l, TRUE)

\* addTask(task): push, then task.setChain(this).
AddTask(c, t) ==
    /\ Len(chain[c]) < MaxLen
    /\ IF ValidateTaskThrows(t)
       THEN /\ last' = Called("addTask", c, t, Undefined, TRUE)
            /\ UNCHANGED <<chain, owner>>
       ELSE /\ chain' = [chain EXCEPT ![c] = Append(@, t)]
            /\ SetChain("addTask", c, t, Undefined, c)
    /\ UNCHANGED <<reqVars, label, config, declared, callVars, runVars>>

\* removeTask(task): throws when the task is not a member (for a value that
\* is not a Task the message's task.getName() is itself a TypeError).
RemoveTask(c, t) ==
    /\ LET idx == IndexOfTask(chain[c], t)
       IN  IF ValidateTaskThrows(t) \/ idx = -1
           THEN /\ last' = Called("removeTask", c, t, Undefined, TRUE)
                /\ UNCHANGED <<chain, owner>>
           ELSE /\ chain' = [chain EXCEPT ![c] = SpliceRemove(@, idx)]
                /\ SetChain("removeTask", c, t, Undefined, NoChain)
    /\ UNCHANGED <<reqVars, label, config, declared, callVars, runVars>>

\* insertBeforeTask(task, label) with offset 0, insertAfterTask with offset 1:
\* this.#chain.splice(this.#findByLabel(label) + offset, 0, task); task.setChain(this).
Insert(op, offset, c, t, l) ==
    /\ Len(chain[c]) < MaxLen
    /\ IF \/ ValidateTaskThrows(t)
          \/ ValidateLabelThrows(l)
          \/ FindByLabelThrows(chain[c], The(l))
       THEN /\ last' = Called(op, c, t, l, TRUE)
            /\ UNCHANGED <<chain, owner>>
       ELSE /\ chain' = [chain EXCEPT
                           ![c] = SpliceInsert(@, FindIndex(@, The(l)) + offset, t)]
            /\ SetChain(op, c, t, l, c)
    /\ UNCHANGED <<reqVars, label, config, declared, callVars, runVars>>

InsertBeforeTask(c, t, l) == Insert("insertBeforeTask", 0, c, t, l)
InsertAfterTask(c, t, l) == Insert("insertAfterTask", 1, c, t, l)

\* Labels the editing caller passes: every one-letter label (some of no
\* Task), the empty string, one with a blank, and null.
LabelArgs ==
    {Some(<<Alphabet[i]>>) : i \in 1..NumTasks}
        \cup {Some(<<>>), Some(<<"a", " ">>), Undefined}

\* Chains the editing caller edits.
EditChains == {"A"}

\* The caller has constructed NumTasks Tasks, two of them per label, and an
\* empty chain.
InitEdit ==
    /\ builder = NoBuilder
    /\ req = IdleReq
    /\ label = [t \in TaskIds |-> <<Alphabet[(t + 1) \div 2]>>]
    /\ config = [t \in TaskIds |-> DefaultConfig]
    /\ chain = [c \in ChainIds |-> <<>>]
    /\ owner = [t \in TaskIds |-> NoChain]
    /\ stopChain = [c \in ChainIds |-> Undefined]
    /\ runState = "idle"
    /\ pos = 0
    /\ pc = "none"
    /\ attempt = 0
    /\ outcomes = <<>>
    /\ delays = <<>>
    /\ ret = NoRet
    /\ steps = [l \in {} |-> Data]
    /\ started = [t \in TaskIds |-> 0]
    /\ calls = [t \in TaskIds |-> 0]
    /\ signals = <<>>
    /\ last = NoCall
    /\ declared = [t \in TaskIds |-> Undefined]
    /\ InitRun

NextEdit ==
    \E c \in EditChains : \E t \in TaskIds :
        \/ AddTask(c, t)
        \/ RemoveTask(c, t)
        \/ \E l \in LabelArgs : InsertBeforeTask(c, t, l)
        \/ \E l \in LabelArgs : InsertAfterTask(c, t, l)

SpecEdit == InitEdit /\ [][NextEdit]_vars

\* -------------------------------------------------- chain editing: claims
LabelsOf(seq) == {label[seq[i]] : i \in 1..Len(seq)}
\* The last call left the chain and the Task's back-reference as they were.
LastLeftUnchanged ==
    /\ chain[last.c] = last.before
    /\ owner[last.task] = last.ownerBefore
\* seq without its p-th member.
Without(seq, p) == SubSeq(seq, 1, p - 1) \o SubSeq(seq, p + 1, Len(seq))

\* C8: addTask with a Task whose label a member of the chain already has
\* fails with an error and leaves the chain's members, their order and the
\* rejected Task's back-reference unchanged.
C8_DuplicateLabelRejected ==
    (last.op = "addTask" /\ label[last.task] \in LabelsOf(last.before)) =>
        last.threw /\ LastLeftUnchanged

\* C9: after any sequence of addTask, removeTask, insertBeforeTask and
\* insertAfterTask calls, failed ones included, no two members of a chain's
\* sequence have the same label.
C9_LabelsUnique ==
    \A c \in ChainIds :
        \A i, j \in 1..Len(chain[c]) :
            i # j => label[chain[c][i]] # label[chain[c][j]]

IsInsert == last.op \in {"insertBeforeTask", "insertAfterTask"}
\* The label argument of the last call is the label of a member.
LastLabelKnown ==
    last.label # Undefined /\ The(last.label) \in LabelsOf(last.before)

\* C10: insertBeforeTask / insertAfterTask with a label no member has fail
\* and leave the chain's sequence and the task's back-reference as they
\* were; with a member's label the task is placed immediately before
\* (resp. after) the labelled member and the other members keep their order.
C10_InsertByLabel ==
    IsInsert =>
        IF ~LastLabelKnown
        THEN last.threw /\ LastLeftUnchanged
        ELSE /\ ~last.threw
             /\ owner[last.task] = last.c
             /\ \E p \in 1..Len(chain[last.c]) :
                   /\ chain[last.c][p] = last.task
                   /\ Without(chain[last.c], p) = last.before
                   /\ IF last.op = "insertBeforeTask"
                      THEN /\ p < Len(chain[last.c])
                           /\ label[chain[last.c][p + 1]] = The(last.label)
                      ELSE /\ p > 1
                           /\ label[chain[last.c][p - 1]] = The(last.label)

\* insertAfterTask with a well-formed label of no member, on a chain of two.
C10_Witness ==
    /\ last.op = "insertAfterTask"
    /\ last.label = Some(<<"c">>)
    /\ Len(last.before) = 2
    /\ last.threw
    /\ chain[last.c] = last.before

\* ------------------------------------------------------- declared inputs
\* Names of inputs, the default values Tasks declare for them (defaultValue
\* may be absent) and the values a caller supplies.
InputNames == {"x", "y"}
DefaultValues == {Undefined, Some(1)}
SuppliedValues == {Some(2)}

\* config.inputs: a list of { name, defaultValue } (isTemplate only selects
\* whether getInputs copies the default, which the values here do not show).
Declarations ==
    {<<>>} \cup {<<[name |-> n, defaultValue |-> v]>> :
                   n \in InputNames, v \in DefaultValues}

\* Task.getInputs(): one property per declared input, holding its default;
\* a later declaration of a name overwrites an earlier one.
GetInputs(t) ==
    LET ds == The(declared[t])
        at(n) == CHOOSE i \in 1..Len(ds) :
                    ds[i].name = n /\ \A j \in (i + 1)..Len(ds) : ds[j].name # n
    IN  [n \in {ds[i].name : i \in 1..Len(ds)} |-> ds[at(n)].defaultValue]

RECURSIVE SpreadTemplate(_, _)
\* this.#chain.reduce((template, task) => ({ ...template, ...task.getInputs() }), {})
\* over the first k members.
SpreadTemplate(seq, k) ==
    IF k = 0 THEN [n \in {} |-> Undefined]
    ELSE LET template == SpreadTemplate(seq, k - 1)
             own == GetInputs(seq[k])
         IN  [n \in DOMAIN template \cup DOMAIN own |->
                 IF n \in DOMAIN own THEN own[n] ELSE template[n]]

GetInputTemplateFirstWins(c) ==
    SpreadTemplate([i \in 1..Len(chain[c]) |-> chain[c][Len(chain[c]) + 1 - i]],
                   Len(chain[c]))
\* TaskChain.getInputTemplate()
GetInputTemplate(c) == SpreadTemplate(chain[c], Len(chain[c]))

\* What a caller passes to run: nothing, or an object giving some inputs.
SuppliedInputs ==
    {Undefined} \cup
    {Some(f) : f \in UNION {[S -> SuppliedValues] : S \in SUBSET InputNames}}

\* run(inputs) called with an argument.
RunWithInputs ==
    /\ CallerIdle
    /\ \E supplied \in SuppliedInputs : BeginRun(supplied)
    /\ UNCHANGED <<reqVars, objVars, callVars, last, history, other>>

\* The caller has constructed single-attempt Tasks with distinct labels, each
\* declaring at most one input, the first m of them added to the chain.
InitInputs ==
    /\ builder = NoBuilder
    /\ req = IdleReq
    /\ label = [t \in TaskIds |-> <<Alphabet[t]>>]
    /\ config = [t \in TaskIds |-> SingleAttempt]
    /\ declared \in [TaskIds -> {Some(d) : d \in Declarations}]
    /\ \E m \in 1..NumTasks :
          /\ chain = [c \in ChainIds |->
                        IF c = RunChain THEN [i \in 1..m |-> i] ELSE <<>>]
          /\ owner = [t \in TaskIds |-> IF t <= m THEN RunChain ELSE NoChain]
    /\ stopChain = [c \in ChainIds |-> Undefined]
    /\ runState = "idle"
    /\ pos = 0
    /\ pc = "none"
    /\ attempt = 0
    /\ outcomes = <<>>
    /\ delays = <<>>
    /\ ret = NoRet
    /\ steps = [l \in {} |-> Data]
    /\ started = [t \in TaskIds |-> 0]
    /\ calls = [t \in TaskIds |-> 0]
    /\ signals = <<>>
    /\ last = NoCall
    /\ InitRun

NextInputs ==
    \/ RunWithInputs
    \/ TaskSettle
    \/ DriverResume

SpecInputs == InitInputs /\ [][NextInputs]_vars

\* The inputs the caller supplied, as a mapping (empty when none were).
SuppliedMap ==
    IF inputs.arg = Undefined THEN [n \in {} |-> Undefined] ELSE The(inputs.arg)

\* C15: the inputs of the execution context of a run are the caller-supplied
\* values merged over the declared defaults of the chain's Tasks: every
\* declared input is present, with the caller's value when one was supplied
\* and with its default otherwise.
C15_InputsMerged ==
    runState # "idle" =>
        LET template == GetInputTemplate(RunChain)
            present(n) == inputs.context # Undefined /\ n \in DOMAIN The(inputs.context)
        IN  /\ \A n \in DOMAIN SuppliedMap :
                  present(n) /\ The(inputs.context)[n] = SuppliedMap[n]
            /\ \A n \in DOMAIN template \ DOMAIN SuppliedMap :
                  present(n) /\ The(inputs.context)[n] = template[n]

\* --------------------------------------------------- runs in sequence
\* run() called again on the same chain after the earlier call has settled.
RunAgain ==
    /\ builder = NoBuilder
    /\ RunEnded
    /\ history.runs < MaxRuns - 1
    /\ BeginRun(Undefined)
    /\ history' = [runs |-> history.runs + 1, state |-> runState,
                    labels |-> DOMAIN steps, flag |-> stopChain[RunChain]]
    /\ UNCHANGED <<reqVars, objVars, callVars, last, other>>

\* breakChain(value = true) { this.#stopChain = value }
BreakChainValue(value) == IF value = Undefined THEN TRUE ELSE The(value)

\* chain.breakChain(value), a public method: whoever holds the chain calls it.
BreakChain(value) ==
    /\ builder = NoBuilder
    /\ stopChain' = [stopChain EXCEPT ![RunChain] = Some(BreakChainValue(value))]
    /\ UNCHANGED <<reqVars, objVars, callVars, last, runState, pos, pc, attempt, outcomes,
                   delays, ret, steps, started, calls, signals, inputs, written,
                   history, other>>

\* breakChain called by the caller while no run is in flight.
BreakChainBetweenRuns(value) == runState # "running" /\ BreakChain(value)

\* The caller has constructed NumTasks Tasks with distinct labels and a
\* budget of one attempt ({ retries: 1 }), the first m of them added to the
\* chain in order.
InitRerun ==
    /\ Init
    /\ builder = NoBuilder
    /\ config = [t \in TaskIds |-> SingleAttempt]

NextRerun ==
    \/ StartRun
    \/ TaskSettle
    \/ DriverResume
    \/ RunAgain
    \/ \E v \in {Undefined, Some(TRUE)} : BreakChainBetweenRuns(v)

SpecRerun == InitRerun /\ [][NextRerun]_vars

\* The number of Tasks whose result the current run has recorded.
Recorded == IF runState \in {"completed", "aborted"} THEN pos ELSE pos - 1

\* C13: every run of a chain starts with the abort flag false, whatever the
\* earlier run or a breakChain call between the runs left in it: the run
\* starts at the first Task, the flag stays false while no signal of this run
\* asks for an abort, and the run ends Aborted only on such a signal.
C13_RunResetsFlag ==
    /\ (runState = "running" /\ signals = <<>>) =>
          pos = 1 /\ stopChain[RunChain] = Some(FALSE)
    /\ (runState = "running" /\ \A i \in 1..Len(signals) : ToldToContinue(signals[i])) =>
          stopChain[RunChain] = Some(FALSE)
    /\ runState = "aborted" =>
          \E i \in 1..Len(signals) : ~ToldToContinue(signals[i])

\* breakChain(true) after a completed run, then a run of two Tasks completes.
C13_Witness ==
    /\ history.runs = 1
    /\ history.state = "completed"
    /\ history.flag = Some(TRUE)
    /\ Len(Members) = 2
    /\ runState = "completed"
    /\ DOMAIN steps = {label[1], label[2]}

\* C14: when run is called again on the same chain, context.steps of the
\* later run starts empty and holds at every point exactly the labels of the
\* Tasks this run has recorded, each with the result of this run.
C14_FreshSteps ==
    (history.runs >= 1 /\ runState # "idle") =>
        /\ DOMAIN steps = LabelsUpTo(Recorded)
        /\ \A i \in 1..Recorded : steps[label[Members[i]]] = signals[i].detail

\* The first run recorded two Tasks; the second was aborted at the first
\* and holds the first Task's error only.
C14_Witness ==
    /\ history.runs = 1
    /\ history.labels = {label[1], label[2]}
    /\ runState = "aborted"
    /\ DOMAIN steps = {label[1]}
    /\ steps[label[1]] = TaskExhaustedError(1)

\* ------------------------------------------------- listeners that write
\* A listener may write into the context it is handed.
TaskSettleWritten == SettleWith(BOOLEAN)

NextWrite ==
    \/ StartRun
    \/ TaskSettleWritten
    \/ DriverResume

SpecWrite == InitRerun /\ [][NextWrite]_vars

\* C17: listeners are handed a copy of the signalled context: whatever they
\* write lands in a copy, never in the object Task.run returns and the chain
\* records in context.steps and hands on to the later Tasks.
C17_ListenersGetCopy ==
    /\ \A r \in written : r[1] = "copy"
    /\ \A i \in 1..Recorded : ResultRef(Members[i]) \notin written
    /\ (runState = "running" /\ pc = "returned") => ResultRef(CurrentTask) \notin written

\* Listeners wrote into what they were handed for both Tasks of a completed run.
C17_Witness ==
    /\ runState = "completed"
    /\ Len(Members) = 2
    /\ written = {CopyRef(1), CopyRef(2)}
    /\ DOMAIN steps = {label[1], label[2]}

\* ------------------------------------------- breakChain during a run
\* The action of the running Task calls chain.breakChain() before it settles.
BreakChainByAction ==
    /\ runState = "running"
    /\ pc = "action"
    /\ stopChain[RunChain] # Some(TRUE)
    /\ BreakChain(Undefined)

NextDirect ==
    \/ StartRun
    \/ TaskSettle
    \/ DriverResume
    \/ BreakChainByAction

SpecDirect == InitRerun /\ [][NextDirect]_vars

\* C18: a run ends Aborted only if one of its Tasks emitted a failure signal
\* whose abort decision was not overridden to false, or a listener called the
\* abort override with true during a success signal.
C18_AbortOnlyBySignal ==
    runState = "aborted" =>
        \E i \in 1..Len(signals) :
            \/ signals[i].type = "taskError" /\ ~signals[i].lastOverrides
            \/ signals[i].type = "taskSuccess" /\ signals[i].overridden

\* ------------------------------------------------------ interleaved runs
\* A second run() call on the same chain while the first one is in flight:
\* its own context, the shared abort flag reset, then the first Task.
OtherStart ==
    /\ runState = "running"
    /\ other.state = "idle"
    /\ stopChain' = [stopChain EXCEPT ![RunChain] = FlagAtRunStart(@)]
    /\ other' = [state |-> "running", pos |-> 1, pc |-> "action", broke |-> FALSE,
                  startedAt |-> <<pos, pc>>]
    /\ UNCHANGED <<reqVars, objVars, callVars, last, runState, pos, pc, attempt, outcomes,
                   delays, ret, steps, started, calls, signals, inputs, written,
                   history>>

\* The Task.run the second call awaits returns, in terminal failure or in
\* success, after its signal was dispatched to the listeners, who decide d:
\* #dispatchEvent calls this.#chain.breakChain() when the decision ends true.
OtherSettle ==
    /\ other.pc = "action"
    /\ \E failed \in BOOLEAN : \E d \in ObserverDecisions :
          LET stop == Dispatch(IF failed THEN ErrorStopDefault
                                         ELSE SuccessStopDefault, d)
          IN  /\ stopChain' = IF stop
                              THEN [stopChain EXCEPT ![RunChain] = Some(TRUE)]
                              ELSE stopChain
              /\ other' = [other EXCEPT !.pc = "returned", !.broke = @ \/ stop]
    /\ UNCHANGED <<reqVars, objVars, callVars, last, runState, pos, pc, attempt, outcomes,
                   delays, ret, steps, started, calls, signals, inputs, written,
                   history>>

\* The driver loop of the second call resumes: it records the result in its
\* own context, checks the shared flag, then enters the next Task or ends.
OtherResume ==
    /\ other.pc = "returned"
    /\ other' = IF AbortCheck(stopChain[RunChain])
                THEN [other EXCEPT !.state = "aborted", !.pc = "none"]
                ELSE IF other.pos < Len(chain[RunChain])
                THEN [other EXCEPT !.pos = NextIndex(@), !.pc = "action"]
                ELSE [other EXCEPT !.state = "completed", !.pc = "none"]
    /\ UNCHANGED <<reqVars, objVars, callVars, last, stopChain, runState, pos, pc, attempt,
                   outcomes, delays, ret, steps, started, calls, signals, inputs,
                   written, history>>

NextInterleaved ==
    \/ StartRun
    \/ TaskSettle
    \/ DriverResume
    \/ OtherStart
    \/ OtherSettle
    \/ OtherResume

SpecInterleaved == InitRerun /\ [][NextInterleaved]_vars

\* The Tasks of the first call whose signal ended with an abort decision and
\* past which its driver nevertheless went on.
PassedAbortingTasks ==
    {k \in 1..Len(Members) :
        /\ \E i \in 1..Len(signals) :
              signals[i].task = Members[k] /\ ~ToldToContinue(signals[i])
        /\ \/ pos > k
           \/ pos = k /\ runState = "completed"}

\* C20: two run calls interleaved on one chain share the abort flag and race
\* on it.  The first call stops early although none of its own signals asked
\* for an abort only when a signal of the second call set the flag, and it
\* goes on past a Task whose signal asked for an abort only when the second
\* call started, clearing the flag, between that Task's return and the
\* driver's check.
C20_SharedFlagRace ==
    /\ (runState = "aborted"
           /\ \A i \in 1..Len(signals) : ToldToContinue(signals[i])) => other.broke
    /\ \A k \in PassedAbortingTasks : other.startedAt = <<k, "returned">>

\* Both races in one run of the first call: it went on past its failed first
\* Task, and was then stopped after its successful second Task.
C20_Witness ==
    /\ Len(Members) = 3
    /\ runState = "aborted"
    /\ pos = 2
    /\ Len(signals) = 2
    /\ signals[1].type = "taskError" /\ ~signals[1].lastOverrides
    /\ signals[2].type = "taskSuccess" /\ ~signals[2].overridden
    /\ other.broke
    /\ started[3] = 0

\* ------------------------------------------- editing with arbitrary values
\* The values the caller passes as the task: the Tasks and a non-Task.
TaskArgs == TaskIds \cup {NotATask}

\* The caller has constructed NumTasks Tasks with distinct labels and an
\* empty chain.
InitEditAny ==
    /\ builder = NoBuilder
    /\ req = IdleReq
    /\ label = [t \in TaskIds |-> <<Alphabet[t]>>]
    /\ config = [t \in TaskIds |-> DefaultConfig]
    /\ chain = [c \in ChainIds |-> <<>>]
    /\ owner = [t \in TaskIds |-> NoChain]
    /\ stopChain = [c \in ChainIds |-> Undefined]
    /\ runState = "idle"
    /\ pos = 0
    /\ pc = "none"
    /\ attempt = 0
    /\ outcomes = <<>>
    /\ delays = <<>>
    /\ ret = NoRet
    /\ steps = [l \in {} |-> Data]
    /\ started = [t \in TaskIds |-> 0]
    /\ calls = [t \in TaskIds |-> 0]
    /\ signals = <<>>
    /\ last = NoCall
    /\ declared = [t \in TaskIds |-> Undefined]
    /\ InitRun

NextEditAny ==
    \E c \in EditChains : \E t \in TaskArgs :
        \/ AddTask(c, t)
        \/ RemoveTask(c, t)
        \/ \E l \in LabelArgs : InsertBeforeTask(c, t, l)
        \/ \E l \in LabelArgs : InsertAfterTask(c, t, l)

SpecEditAny == InitEditAny /\ [][NextEditAny]_vars

\* C11: addTask, removeTask, insertBeforeTask and insertAfterTask called with
\* a value that is not a Task instance fail with an error and leave the
\* chain's sequence as it was.
C11_NonTaskRejected ==
    (last.op # "none" /\ ~IsTask(last.task)) =>
        last.threw /\ chain[last.c] = last.before

\* ------------------------------------------------ editing several chains
\* Labels of the Tasks: the label arguments of a caller who edits two chains.
TaskLabels == {Some(<<Alphabet[t]>>) : t \in TaskIds}

NextEditOwn ==
    \E c \in ChainIds : \E t \in TaskIds :
        \/ AddTask(c, t)
        \/ RemoveTask(c, t)
        \/ \E l \in TaskLabels : InsertBeforeTask(c, t, l)
        \/ \E l \in TaskLabels : InsertAfterTask(c, t, l)

SpecEditOwn == InitEditAny /\ [][NextEditOwn]_vars

\* The places (chain, index) at which Task t is a member.
Memberships(t) ==
    {m \in ChainIds \X (1..MaxLen) : m[2] <= Len(chain[m[1]]) /\ chain[m[1]][m[2]] = t}

\* C12: after any sequence of addTask / insertBeforeTask / insertAfterTask /
\* removeTask calls over several chains no Task is a member of two chains
\* nor twice a member of one, and a call that attaches a Task which is
\* still attached to a chain fails.
C12_SingleOwner ==
    /\ \A t \in TaskIds : Cardinality(Memberships(t)) <= 1
    /\ (last.op \in {"addTask", "insertBeforeTask", "insertAfterTask"}
            /\ last.ownerBefore # NoChain) => last.threw

\* ------------------------------------------- getInputs: the objects returned
\* How many getInputs() / getInputTemplate() calls a behaviour makes.
MaxGets == 2
\* How many inputs one Task declares at most.
MaxInputs == 2

\* isTemplate of a declaration: omitted, true or false.
TemplateFlags == {Undefined, Some(TRUE), Some(FALSE)}
\* A default that is an object, so that it has an identity.
ObjectDefault == Some("object")

\* config.inputs whose defaults are objects: { name, defaultValue, isTemplate }.
TemplateDeclarations ==
    UNION {[1..k -> [name : InputNames, defaultValue : {ObjectDefault},
                     isTemplate : TemplateFlags]] : k \in 0..MaxInputs}

\* const { ..., isTemplate = true } = input
IsTemplate(input) ==
    IF "isTemplate" \notin DOMAIN input \/ input.isTemplate = Undefined
    THEN TRUE ELSE The(input.isTemplate)

\* The object that declaration i of Task t holds as its defaultValue.
DefaultRef(t, i) == <<"default", t, i>>
\* const NEW_OBJECT = {} of the n-th call.
NewObject(n) == <<"mapping", n>>

\* object.deepClone(x) called for declaration i during the n-th call: an
\* object that did not exist before the call, equal to x in content.
DeepCloneAt(ref, n, i) == <<"clone", n, i>>

InputValueNeverCloned(isTemplate, defaultValue, clone) == defaultValue
\* isTemplate ? object.deepClone(defaultValue) : defaultValue
InputValue(isTemplate, defaultValue, clone) ==
    IF isTemplate THEN clone ELSE defaultValue

\* The declaration of Task t that decides property n of getInputs(): the
\* forEach assigns in order, so the last one of that name.
DecidingInput(t, n) ==
    LET ds == The(declared[t])
    IN  CHOOSE i \in 1..Len(ds) :
            ds[i].name = n /\ \A j \in (i + 1)..Len(ds) : ds[j].name # n

\* Task.getInputs() as the n-th call: the object returned and the object
\* each of its properties refers to.
GetInputsObject(t, n) ==
    LET ds == The(declared[t])
    IN  [op |-> "getInputs", task |-> t, threw |-> FALSE, object |-> NewObject(n),
         props |-> [name \in {ds[i].name : i \in 1..Len(ds)} |->
                      LET i == DecidingInput(t, name)
                      IN  InputValue(IsTemplate(ds[i]), DefaultRef(t, i),
                                     DeepCloneAt(DefaultRef(t, i), n, i))]]

\* this.#config.inputs.forEach on a config without inputs: a TypeError.
GetInputsThrows(t) == declared[t] = Undefined

\* A caller calls task.getInputs().
CallGetInputs(t) ==
    /\ CallerIdle
    /\ Len(got) < MaxGets
    /\ got' = Append(got,
                IF GetInputsThrows(t)
                THEN [op |-> "getInputs", task |-> t, threw |-> TRUE,
                      object |-> NewObject(0), props |-> <<>>]
                ELSE GetInputsObject(t, Len(got) + 1))
    /\ UNCHANGED <<reqVars, objVars, runVars, last, made, built, client>>

\* Single-attempt Tasks with distinct labels, in the chain in order; Task 1
\* declares up to MaxInputs inputs with object defaults, the others none.
InitTemplates ==
    /\ builder = NoBuilder
    /\ req = IdleReq
    /\ label = [t \in TaskIds |-> <<Alphabet[t]>>]
    /\ config = [t \in TaskIds |-> SingleAttempt]
    /\ \E d \in TemplateDeclarations :
          declared = [t \in TaskIds |-> IF t = 1 THEN Some(d) ELSE Some(<<>>)]
    /\ chain = [c \in ChainIds |->
                  IF c = RunChain THEN [i \in 1..NumTasks |-> i] ELSE <<>>]
    /\ owner = [t \in TaskIds |-> RunChain]
    /\ stopChain = [c \in ChainIds |-> Undefined]
    /\ runState = "idle"
    /\ pos = 0
    /\ pc = "none"
    /\ attempt = 0
    /\ outcomes = <<>>
    /\ delays = <<>>
    /\ ret = NoRet
    /\ steps = [l \in {} |-> Data]
    /\ started = [t \in TaskIds |-> 0]
    /\ calls = [t \in TaskIds |-> 0]
    /\ signals = <<>>
    /\ last = NoCall
    /\ InitRun

NextTemplates == \E t \in TaskIds : CallGetInputs(t)

SpecTemplates == InitTemplates /\ [][NextTemplates]_vars

\* Two getInputs() calls on the same Task, the earlier one first.
TwoGetInputs ==
    {<<i, j>> \in (DOMAIN got) \X (DOMAIN got) :
        /\ i < j
        /\ got[i].op = "getInputs" /\ got[j].op = "getInputs"
        /\ got[i].task = got[j].task
        /\ ~got[i].threw /\ ~got[j].threw}

\* C21: two getInputs() calls on the same Task return two distinct mappings;
\* an input flagged template (or with the flag omitted) holds in each a copy
\* of its default that is neither the default itself nor the other call's copy,
\* and an input flagged non-template holds the default itself in both.
C21_TemplateInputsCopied ==
    \A p \in TwoGetInputs :
        LET a == got[p[1]]
            b == got[p[2]]
            t == a.task
            ds == The(declared[t])
        IN  /\ a.object # b.object
            /\ DOMAIN a.props = DOMAIN b.props
            /\ \A n \in DOMAIN a.props :
                  LET i == DecidingInput(t, n)
                  IN  IF ds[i].isTemplate = Some(FALSE)
                      THEN a.props[n] = DefaultRef(t, i) /\ b.props[n] = DefaultRef(t, i)
                      ELSE /\ a.props[n] # b.props[n]
                           /\ a.props[n] # DefaultRef(t, i)
                           /\ b.props[n] # DefaultRef(t, i)

\* Two calls on a Task that declares a template input, an input with the flag
\* omitted and, in another behaviour, a non-template one.
C21_Witness ==
    \E p \in TwoGetInputs :
        LET ds == The(declared[got[p[1]].task])
        IN  /\ \E i \in DOMAIN ds : ds[i].isTemplate = Some(FALSE)
            /\ \E i \in DOMAIN ds : ds[i].isTemplate = Undefined
            /\ Cardinality(DOMAIN got[p[1]].props) = 2

\* ------------------------------------------------ getInputTemplate: calls
\* getInputTemplate() throws when getInputs() of a member does.
GetInputTemplateThrows(c) ==
    \E i \in 1..Len(chain[c]) : GetInputsThrows(chain[c][i])

\* A caller calls chain.getInputTemplate().
CallGetInputTemplate(c) ==
    /\ CallerIdle
    /\ Len(got) < MaxGets
    /\ got' = Append(got,
                [op |-> "getInputTemplate", chain |-> c,
                 threw |-> GetInputTemplateThrows(c),
                 props |-> IF GetInputTemplateThrows(c) THEN <<>>
                           ELSE GetInputTemplate(c)])
    /\ UNCHANGED <<reqVars, objVars, runVars, last, made, built, client>>

NextChainTemplate == \E c \in ChainIds : CallGetInputTemplate(c)

SpecChainTemplate == InitInputs /\ [][NextChainTemplate]_vars

\* The positions in chain c of the Tasks that declare input n.
Declaring(c, n) ==
    {i \in 1..Len(chain[c]) :
        \E k \in DOMAIN The(declared[chain[c][i]]) :
            The(declared[chain[c][i]])[k].name = n}

\* The default Task t declares for input n.
DeclaredDefault(t, n) ==
    LET ds == The(declared[t])
    IN  ds[CHOOSE k \in DOMAIN ds : ds[k].name = n].defaultValue

\* C22: getInputTemplate() returns the union of the input names declared by
\* the Tasks of the chain, and a name declared by several Tasks carries the
\* default of the Task that comes last in chain order.
C22_TemplateLastWins ==
    \A g \in DOMAIN got :
        (got[g].op = "getInputTemplate" /\ ~got[g].threw) =>
            LET c == got[g].chain
            IN  /\ DOMAIN got[g].props = {n \in InputNames : Declaring(c, n) # {}}
                /\ \A n \in DOMAIN got[g].props :
                      LET lastOne == CHOOSE i \in Declaring(c, n) :
                                        \A j \in Declaring(c, n) : j <= i
                      IN  got[g].props[n] = DeclaredDefault(chain[c][lastOne], n)

\* A template of a chain in which two Tasks declare the same input with
\* different defaults and a third Task declares another input.
C22_Witness ==
    \E g \in DOMAIN got :
        /\ got[g].op = "getInputTemplate" /\ ~got[g].threw
        /\ Cardinality(DOMAIN got[g].props) = 2
        /\ \E n \in InputNames :
              LET c == got[g].chain
              IN  \E i, j \in Declaring(c, n) :
                     /\ i < j
                     /\ DeclaredDefault(chain[c][i], n) # DeclaredDefault(chain[c][j], n)

\* ----------------------------------------------------- Task construction
\* A JavaScript value as #validateInputs sees it: its typeof, and for a
\* number whether it is NaN and otherwise its value.
Js(type) == [type |-> type, nan |-> FALSE, n |-> 0]
Number(n) == [type |-> "number", nan |-> FALSE, n |-> n]
NaN == [type |-> "number", nan |-> TRUE, n |-> 0]
\* a < k: false whenever a is NaN.
LessThan(a, k) == ~a.nan /\ a.n < k

\* Values passed as retries, interval, stopRetries and action.
RetriesArgs == {Js("undefined"), Js("string"), Number(0), Number(1), NaN}
IntervalArgs ==
    {Js("undefined"), Js("string"), Number(MinInterval - 1), Number(MinInterval), NaN}
CallableArgs == {Js("function"), Js("string")}

\* One entry of config.inputs: name present or empty, isTemplate omitted,
\* a boolean or something else.
InputArgs ==
    [name : {Some(<<"x">>), Some(<<>>), Undefined},
     isTemplate : {Js("undefined"), Js("boolean"), Js("string")}]

\* config.inputs: omitted, not an array, or an array of entries.
InputsArgs ==
    {[type |-> "undefined", items |-> <<>>], [type |-> "string", items |-> <<>>]}
        \cup {[type |-> "array", items |-> items] :
                 items \in UNION {[1..k -> InputArgs] : k \in 0..MaxInputs}}

\* The config argument: omitted, a string, null, or an object with fields.
ConfigArgs ==
    {[type |-> ty, inputs |-> [type |-> "undefined", items |-> <<>>],
      retries |-> Js("undefined"), interval |-> Js("undefined"),
      stopRetries |-> Js("undefined")] : ty \in {"undefined", "string", "null"}}
        \cup [type : {"object"}, inputs : InputsArgs, retries : RetriesArgs,
              interval : IntervalArgs,
              stopRetries : CallableArgs \cup {Js("undefined")}]

\* The labels a Task is constructed with.
NewLabels == {Some(<<"a">>), Some(<<>>), Some(<<"a", " ">>), Undefined}

\* const { x = d } = config: the default applies when x is undefined.
OrDefault(v, d) == IF v.type = "undefined" THEN d ELSE v

\* The forEach over config.inputs throws for an entry.
InputThrows(input) ==
    \/ IsEmptyOrNull(input.name)
    \/ OrDefault(input.isTemplate, Js("boolean")).type # "boolean"

\* if (retries < 1) throw
RetriesBelowOne(retries) == LessThan(retries, 1)

\* #validateInputs(label, action, config) throws.  A config that was omitted
\* is {}; destructuring null is a TypeError.
ValidateInputsThrows(l, action, cfg) ==
    LET entries == OrDefault(cfg.inputs, [type |-> "array", items |-> <<>>])
        retries == OrDefault(cfg.retries, Number(DefaultRetries))
        interval == OrDefault(cfg.interval, Number(DefaultInterval))
        stopRetries == OrDefault(cfg.stopRetries, Js("function"))
    IN  \/ IsEmptyOrNull(l)
        \/ HasWhitespace(The(l))
        \/ action.type # "function"
        \/ cfg.type \notin {"undefined", "object", "null"}
        \/ cfg.type = "null"
        \/ entries.type # "array"
        \/ \E i \in DOMAIN entries.items : InputThrows(entries.items[i])
        \/ retries.type # "number"
        \/ RetriesBelowOne(retries)
        \/ interval.type # "number"
        \/ LessThan(interval, MinInterval)
        \/ stopRetries.type # "function"

\* new Task(label, action, config): throws, or yields a Task holding the
\* arguments and no chain.
NewTask(l, action, cfg) ==
    /\ CallerIdle
    /\ made = <<>>
    /\ made' = <<[label |-> l, action |-> action, config |-> cfg,
                  threw |-> ValidateInputsThrows(l, action, cfg),
                  chain |-> NoChain]>>
    /\ UNCHANGED <<reqVars, objVars, runVars, last, got, built, client>>

\* One construction per behaviour, with any arguments.
NextConstruct ==
    /\ made = <<>>
    /\ \E l \in NewLabels, action \in CallableArgs, cfg \in ConfigArgs :
          NewTask(l, action, cfg)

\* No Task has been constructed by this caller yet; the chain holds one Task.
InitConstruct ==
    /\ Init
    /\ builder = NoBuilder
    /\ config = [t \in TaskIds |-> DefaultConfig]
    /\ Len(chain[RunChain]) = 1

SpecConstruct == InitConstruct /\ [][NextConstruct]_vars

\* The Tasks that exist: the constructions that did not throw.
Constructed == {i \in DOMAIN made : ~made[i].threw}

\* What the documentation asks of a retries / interval value: a number that
\* is at least the minimum (or omitted, for the default).
NumberAtLeast(v, k) ==
    v.type = "undefined" \/ (v.type = "number" /\ ~v.nan /\ v.n >= k)

\* C23: a Task is constructed only from a label that is non-empty and has no
\* whitespace, an action that is a function, inputs that each have a
\* non-empty name and a boolean template flag, retries that is a number >= 1,
\* an interval that is a number >= 500 and a stop-predicate that is a
\* function (each of them may be omitted for its default): no Task with
\* another configuration exists.
C23_OnlyValidTasksExist ==
    \A i \in Constructed :
        LET t == made[i]
            cfg == t.config
        IN  /\ ~IsEmptyOrNull(t.label) /\ ~HasWhitespace(The(t.label))
            /\ t.action.type = "function"
            /\ cfg.type \in {"undefined", "object"}
            /\ cfg.inputs.type \in {"undefined", "array"}
            /\ \A k \in DOMAIN cfg.inputs.items :
                  /\ ~IsEmptyOrNull(cfg.inputs.items[k].name)
                  /\ cfg.inputs.items[k].isTemplate.type \in {"undefined", "boolean"}
            /\ NumberAtLeast(cfg.retries, 1)
            /\ NumberAtLeast(cfg.interval, MinInterval)
            /\ cfg.stopRetries.type \in {"undefined", "function"}

\* ------------------------------------------- request builders as objects
\* How many builders a caller derives from the one createRequest returned.
MaxBuilt == 2

\* A string that is not a number ("abc"), and one that is ("2").
Text == [type |-> "string", nan |-> TRUE, n |-> 0]
NumericString(n) == [type |-> "string", nan |-> FALSE, n |-> n]
\* A stop-predicate argument: a function (which one), or a string.
Fn(pred) == [type |-> "function", pred |-> pred]
NotCallable == [type |-> "string", pred |-> "none"]
Missing == [type |-> "undefined", pred |-> "none"]

\* The retryConfig object createRequest starts from, per source file.
InitialRetryConfig(impl) ==
    IF impl = "part_000"
    THEN [maxRetries |-> Number(RequestMaxRetries), interval |-> Number(RequestInterval),
          stopRetries |-> Fn("default")]
    ELSE [maxRetries |-> Number(WrapperMaxRetries), interval |-> Number(WrapperInterval),
          stopRetries |-> Missing]
\* const initialState = { restQuery, queryObject, propertyName: null }
InitialState == [propertyName |-> Undefined]

\* A retryConfig object without fields.
EmptyRetryConfig ==
    [maxRetries |-> Js("undefined"), interval |-> Js("undefined"), stopRetries |-> Missing]

\* No createRequest call was made.
NoBuilt == <<>>
\* The objects allocated so far (an object's reference is its index) and the
\* builders returned so far: the state and retryConfig each closes over, and
\* their content when the builder was returned.
Deref(ref) == IF ref = 0 THEN Undefined ELSE Some(built.objects[ref])
Content(b) == [state |-> Deref(b.state), retryConfig |-> Deref(b.retryConfig)]

\* createRequest(restQuery, queryObject): two new objects and the first builder.
CreateRequestCall(impl) ==
    /\ CallerIdle
    /\ built = NoBuilt
    /\ built' = [impl |-> impl,
                 objects |-> <<InitialState, InitialRetryConfig(impl)>>,
                 builders |-> <<[state |-> 1, retryConfig |-> 2,
                                 born |-> [state |-> Some(InitialState),
                                           retryConfig |-> Some(InitialRetryConfig(impl))]]>>,
                 lastCall |-> [method |-> "createRequest", arg |-> Undefined,
                               threw |-> FALSE]]
    /\ UNCHANGED <<reqVars, objVars, runVars, last, got, made, client>>

SpreadCopyInPlace(objects, ref, field, value) ==
    [objects |-> [objects EXCEPT ![ref] = [@ EXCEPT ![field] = value]], ref |-> ref]
\* { ...retryConfig, maxRetries } / { ...state, propertyName }: a new object
\* with the fields of the old one and one of them replaced.
SpreadCopy(objects, ref, field, value) ==
    [objects |-> Append(objects, [objects[ref] EXCEPT ![field] = value]),
     ref |-> Len(objects) + 1]

\* The configuration methods of each source file's builder.
Methods(impl) ==
    IF impl = "part_000"
    THEN {"withRetries", "withInterval", "withRetryBreaker", "withRetryConfig",
          "withProperty"}
    ELSE {"withRetries", "withInterval", "withProperty"}

\* The arguments a caller passes to each method.
MethodArgs(method) ==
    CASE method = "withRetries" -> {Number(1), Number(2), Text, NumericString(2)}
      [] method = "withInterval" -> {Number(MinInterval), Text}
      [] method = "withRetryBreaker" -> {Fn("never"), NotCallable}
      [] method = "withRetryConfig" ->
            {Some([maxRetries |-> Number(2), interval |-> Number(MinInterval),
                   stopRetries |-> Fn("never")]),
             Some([maxRetries |-> Text, interval |-> Number(MinInterval),
                   stopRetries |-> Fn("never")]),
             Some([maxRetries |-> Number(2), interval |-> Number(MinInterval),
                   stopRetries |-> NotCallable]),
             Undefined}
      [] method = "withProperty" -> {Some("id"), Undefined}

\* The typeof check at the head of a method throws (part_000 only; the
\* builder of octokit-wrapper.js and withRetryConfig have none).
MethodThrows(impl, method, arg) ==
    /\ impl = "part_000"
    /\ CASE method = "withRetries" -> arg.type # "number"
         [] method = "withInterval" -> arg.type # "number"
         [] method = "withRetryBreaker" -> arg.type # "function"
         [] OTHER -> FALSE

\* The field of retryConfig a method replaces.
FieldOf(method) ==
    CASE method = "withRetries" -> "maxRetries"
      [] method = "withInterval" -> "interval"
      [] method = "withRetryBreaker" -> "stopRetries"

\* buildRequest(state, retryConfig) as method `method` of builder b calls it:
\* the objects afterwards and the builder returned.
Configured(b, method, arg) ==
    CASE method = "withProperty" ->
            LET c == SpreadCopy(built.objects, b.state, "propertyName", arg)
            IN  [objects |-> c.objects,
                 builder |-> [state |-> c.ref, retryConfig |-> b.retryConfig]]
      [] method = "withRetryConfig" ->
            IF arg = Undefined
            THEN [objects |-> built.objects,
                  builder |-> [state |-> b.state, retryConfig |-> 0]]
            ELSE [objects |-> Append(built.objects, The(arg)),
                  builder |-> [state |-> b.state,
                               retryConfig |-> Len(built.objects) + 1]]
      [] OTHER ->
            \* { ...undefined, maxRetries } is an object with the one field.
            LET c == IF b.retryConfig = 0
                     THEN [objects |-> Append(built.objects,
                                         [EmptyRetryConfig EXCEPT ![FieldOf(method)] = arg]),
                           ref |-> Len(built.objects) + 1]
                     ELSE SpreadCopy(built.objects, b.retryConfig, FieldOf(method), arg)
            IN  [objects |-> c.objects,
                 builder |-> [state |-> b.state, retryConfig |-> c.ref]]

\* A caller calls a configuration method of builder i with an argument and
\* keeps the builder it returns.
Configure(i, method, arg) ==
    /\ CallerIdle
    /\ built # NoBuilt
    /\ i \in DOMAIN built.builders
    /\ Len(built.builders) <= MaxBuilt
    /\ method \in Methods(built.impl)
    /\ LET b == built.builders[i]
           call == [method |-> method, arg |-> arg,
                    threw |-> MethodThrows(built.impl, method, arg)]
       IN  /\ IF call.threw
              THEN built' = [built EXCEPT !.lastCall = call]
              ELSE LET c == Configured(b, method, arg)
                       after == [built EXCEPT !.objects = c.objects]
                   IN  built' =
                         [after EXCEPT
                            !.lastCall = call,
                            !.builders =
                               Append(@, [state |-> c.builder.state,
                                          retryConfig |-> c.builder.retryConfig,
                                          born |-> [state |-> Some(c.objects[c.builder.state]),
                                                    retryConfig |->
                                                       IF c.builder.retryConfig = 0
                                                       THEN Undefined
                                                       ELSE Some(c.objects[c.builder.retryConfig])]])]
    /\ UNCHANGED <<reqVars, objVars, runVars, last, got, made, client>>

\* Number(v) as the comparisons and the arithmetic of the loop coerce v.
ToNumber(v) == IF v.type \in {"number", "string"} THEN v ELSE NaN

\* The policy runWithRetries works with, from a retryConfig object: a budget
\* that is NaN never lets the loop in, as 0; a stop-predicate that cannot be
\* called is a TypeError when called, as a missing one.
EnginePolicy(rc) ==
    [maxRetries |-> IF ToNumber(rc.maxRetries).nan THEN 0 ELSE ToNumber(rc.maxRetries).n,
     interval |-> IF ToNumber(rc.interval).nan THEN 0 ELSE ToNumber(rc.interval).n,
     stopRetries |-> IF rc.stopRetries.type = "function"
                     THEN Some(rc.stopRetries.pred) ELSE Undefined]

\* runWith -> attemptRequest -> runWithRetries of builder i, up to the first
\* await: destructuring an undefined retryConfig rejects; otherwise the
\* callback is invoked when the loop guard lets attempt 1 in.
RunBuilt(i) ==
    /\ CallerIdle
    /\ built # NoBuilt
    /\ i \in DOMAIN built.builders
    /\ LET c == Content(built.builders[i])
       IN  IF c.retryConfig = Undefined
           THEN req' = [IdleReq EXCEPT !.state = "rejected", !.impl = built.impl,
                                       !.propertyName = The(c.state).propertyName,
                                       !.attempt = 1,
                                       !.result = Some(Failure(TypeError))]
           ELSE LET policy == EnginePolicy(The(c.retryConfig))
                    enters == RetryLoopGuard(1, policy.maxRetries)
                IN  req' = [state |-> IF enters THEN "await" ELSE "resolved",
                            impl |-> built.impl, policy |-> policy,
                            propertyName |-> The(c.state).propertyName,
                            attempt |-> 1,
                            calls |-> IF enters THEN 1 ELSE 0,
                            outcomes |-> <<>>, delays |-> <<>>, result |-> Undefined]
    /\ built' = [built EXCEPT !.lastCall = [method |-> "runWith", arg |-> Some(i),
                                            threw |-> FALSE]]
    /\ UNCHANGED <<builder, objVars, runVars, last, got, made, client>>

NextBuilders ==
    \/ \E impl \in {"part_000", "wrapper"} : CreateRequestCall(impl)
    \/ \E i \in 1..(MaxBuilt + 1) :
          \E method \in Methods("part_000") :
             \E arg \in MethodArgs(method) : Configure(i, method, arg)
    \/ \E i \in 1..(MaxBuilt + 1) : RunBuilt(i)

SpecBuilders == InitConstruct /\ [][NextBuilders]_vars

\* The builder runWith was called on, once it was.
Ran == IF built # NoBuilt /\ built.lastCall.method = "runWith"
       THEN {The(built.lastCall.arg)} ELSE {}

\* C24: every configuration call returns a new builder and leaves the one it
\* was called on, and every other builder, as it was when it was returned;
\* running a builder uses the retry count, interval, stop-predicate and
\* projection it was returned with.
C24_BuildersImmutable ==
    built # NoBuilt =>
        /\ \A i \in DOMAIN built.builders :
              Content(built.builders[i]) = built.builders[i].born
        /\ \A i \in Ran :
              LET born == built.builders[i].born
              IN  /\ req.propertyName = The(born.state).propertyName
                  /\ born.retryConfig # Undefined =>
                        req.policy = EnginePolicy(The(born.retryConfig))

\* The first builder is run after a builder was derived from it with
\* withProperty (which shares its retryConfig object) and a third one from
\* that with another retry count.
C24_Witness ==
    /\ built # NoBuilt
    /\ Len(built.builders) = 3
    /\ Ran = {1}
    /\ built.builders[2].retryConfig = built.builders[1].retryConfig
    /\ built.builders[3].state = built.builders[2].state
    /\ Content(built.builders[3]).retryConfig # Content(built.builders[1]).retryConfig
    /\ Content(built.builders[2]).state # Content(built.builders[1]).state
    /\ req.policy = EnginePolicy(InitialRetryConfig(built.impl))
    /\ req.calls = 1

\* A retryConfig object that is not well formed: a retry count or an
\* interval that is not a number, or (where the engine uses one) a
\* stop-predicate that is not a function.
MalformedConfig(impl, rc) ==
    \/ rc.maxRetries.type # "number"
    \/ rc.interval.type # "number"
    \/ impl = "part_000" /\ rc.stopRetries.type # "function"

\* A configuration call that hands the builder a malformed retry configuration.
MalformedCall(impl, method, arg) ==
    CASE method \in {"withRetries", "withInterval"} -> arg.type # "number"
      [] method = "withRetryBreaker" -> arg.type # "function"
      [] method = "withRetryConfig" ->
            arg = Undefined \/ MalformedConfig(impl, The(arg))
      [] OTHER -> FALSE

\* C25: a configuration call that is given a malformed retry configuration
\* raises at the call; so no builder holds one, and none is run with one.
C25_MalformedConfigRaises ==
    built # NoBuilt =>
        /\ MalformedCall(built.impl, built.lastCall.method, built.lastCall.arg)
              => built.lastCall.threw
        /\ \A i \in Ran :
              LET born == built.builders[i].born
              IN  /\ born.retryConfig # Undefined
                  /\ ~MalformedConfig(built.impl, The(born.retryConfig))

\* ------------------------------------------ requests with any retry count
\* A caller holds the builder createRequest returned.
InitRequest == Init /\ builder # NoBuilder

\* withRetries accepts every number: 0 among them.
NextAnyBudget ==
    \/ \E n \in 0..MaxRetries : WithRetries(n)
    \/ \E i \in Intervals : WithInterval(i)
    \/ \E p \in CallerPredicates : WithRetryBreaker(p)
    \/ RunWith
    \/ \E o \in Outcomes : RetrySettle(o)
    \/ RetryTimer

SpecAnyBudget == InitRequest /\ [][NextAnyBudget]_vars

\* Success{data} or Failure{error}.
IsResult(r) == r \in {Success(Data)} \cup {Failure(e) : e \in
                  {HttpError(NotFound), HttpError(500), Wrapped(HttpError(NotFound)),
                   Wrapped(HttpError(500))}
                  \cup {RetryExhaustedError(n) : n \in 0..(MaxRetries + 1)}}

\* C26: whatever retry policy the builder accepted and whatever the remote
\* operation does, a settled runWith has resolved, never rejected, and
\* resolved to a Success or a Failure.
C26_AlwaysAResult ==
    ReqDone =>
        /\ req.state = "resolved"
        /\ req.result # Undefined
        /\ IsResult(The(req.result))

\* ------------------------------------------------ requests with projection
PropertyNames == {"id"}

NextProjection ==
    \/ \E n \in 1..MaxRetries : WithRetries(n)
    \/ \E p \in CallerPredicates : WithRetryBreaker(p)
    \/ \E p \in PropertyNames : WithProperty(Some(p))
    \/ RunWith
    \/ \E o \in Outcomes \cup {NoField} : RetrySettle(o)
    \/ RetryTimer

SpecProjection == InitRequest /\ [][NextProjection]_vars

\* The run was settled by a remote call that succeeded with a payload
\* lacking the projected field.
SettledByMissingField ==
    /\ ReqDone
    /\ req.propertyName # Undefined
    /\ req.outcomes # <<>>
    /\ req.outcomes[Len(req.outcomes)] = NoField

\* C27: when a projection is configured and the remote call succeeds with a
\* payload that lacks the field, runWith does not return Success, and the
\* Failure it returns is the missing-field failure, not the one of a
\* transport error or of retry exhaustion.
C27_MissingFieldFailure ==
    SettledByMissingField =>
        /\ req.result # Some(Success(Data))
        /\ req.result = Some(Failure(MissingProperty))

\* -------------------------------------------------------- client providers
\* How many times a caller calls one provider.
MaxCalls == 3

\* The providers of src/octokit-wrapper.js ("wrapper") and those of
\* src/tasks/createAppOctokitProvider.js and src/unnamed/part_002 ("tasks").
ProviderImpls == {"wrapper", "tasks"}

\* No provider was created.
NoClient == <<>>

\* createAppOctokitProvider(...) / createUserOctokitProvider(...):
\* let cachedOctokit = null, and the function returned.
CreateProvider(impl) ==
    /\ CallerIdle
    /\ client = NoClient
    /\ client' = [impl |-> impl, cachedOctokit |-> Undefined, constructions |-> 0,
                  pending |-> {}, firstMade |-> Undefined, log |-> <<>>]
    /\ UNCHANGED <<reqVars, objVars, runVars, last, got, made, built>>

\* What a call that ends with client k hands back: a Success in
\* octokit-wrapper.js, the client itself in the other two files.
Returned(impl, k) ==
    IF impl = "wrapper" THEN [kind |-> "success", client |-> k]
    ELSE [kind |-> "client", client |-> k]

\* What a call whose construction throws ends with: the catch block of
\* octokit-wrapper.js returns a Failure; the other two files have no try,
\* so the promise rejects.
ConstructionFailed(impl) ==
    IF impl = "wrapper" THEN [kind |-> "failure", client |-> 0]
    ELSE [kind |-> "rejected", client |-> 0]

\* cachedOctokit after client k was constructed: octokit-wrapper.js assigns
\* it; the other two files never assign their cachedOctokit.
CachedAfter(impl, cached, k) == IF impl = "wrapper" THEN Some(k) ELSE cached

\* A call of the provider, up to its first await: the cached client when
\* there is one, otherwise a construction is started.
ProviderCall ==
    /\ CallerIdle
    /\ client # NoClient
    /\ Len(client.log) + Cardinality(client.pending) < MaxCalls
    /\ IF client.cachedOctokit # Undefined
       THEN client' =
              [client EXCEPT !.log =
                  Append(@, [saw |-> client.firstMade, constructed |-> FALSE,
                             result |-> Returned(client.impl, The(client.cachedOctokit)),
                             cachedBefore |-> client.cachedOctokit,
                             cachedAfter |-> client.cachedOctokit])]
       ELSE client' =
              [client EXCEPT !.constructions = @ + 1,
                             !.pending = @ \cup {[id |-> client.constructions + 1,
                                                  saw |-> client.firstMade]}]
    /\ UNCHANGED <<reqVars, objVars, runVars, last, got, made, built>>

\* The construction a call awaits settles: with a client, or by throwing.
ProviderSettle(call, ok) ==
    /\ client # NoClient
    /\ call \in client.pending
    /\ LET cached == IF ok THEN CachedAfter(client.impl, client.cachedOctokit, call.id)
                     ELSE client.cachedOctokit
       IN  client' =
             [client EXCEPT
                !.pending = @ \ {call},
                !.cachedOctokit = cached,
                !.firstMade = IF ok /\ @ = Undefined THEN Some(call.id) ELSE @,
                !.log = Append(@, [saw |-> call.saw, constructed |-> TRUE,
                                   result |-> IF ok THEN Returned(client.impl, call.id)
                                              ELSE ConstructionFailed(client.impl),
                                   cachedBefore |-> client.cachedOctokit,
                                   cachedAfter |-> cached])]
    /\ UNCHANGED <<reqVars, objVars, runVars, last, got, made, built>>

NextProvider ==
    \/ \E impl \in ProviderImpls : CreateProvider(impl)
    \/ ProviderCall
    \/ \E k \in 1..MaxCalls, saw \in {Undefined} \cup {Some(j) : j \in 1..MaxCalls},
          ok \in BOOLEAN : ProviderSettle([id |-> k, saw |-> saw], ok)

SpecProvider == InitConstruct /\ [][NextProvider]_vars

\* The calls that have returned.
ProviderCalls == IF client = NoClient THEN {} ELSE {client.log[i] : i \in DOMAIN client.log}

\* C28: a call made after a construction has succeeded returns the client of
\* that first successful construction, as a Success, without constructing;
\* a call whose construction fails returns a Failure and leaves the cache as
\* it was.
C28_ProviderCaches ==
    \A c \in ProviderCalls :
        /\ c.saw # Undefined =>
              /\ ~c.constructed
              /\ c.result = [kind |-> "success", client |-> The(c.saw)]
        /\ (c.constructed /\ c.result.kind \notin {"success", "client"}) =>
              /\ c.result.kind = "failure"
              /\ c.cachedAfter = c.cachedBefore

\* ------------------------------------------------ Tasks without a chain
\* Before the run a caller also adds the first Task to the other chain and
\* removes it from there: removeTask leaves its #chain null while the
\* running chain still lists it.
OtherChain == "B"
AddElsewhere(t) == CallerIdle /\ AddTask(OtherChain, t)
RemoveElsewhere(t) == CallerIdle /\ RemoveTask(OtherChain, t)

\* Tasks constructed with a retry count only.
InitDetached ==
    /\ Init
    /\ builder = NoBuilder
    /\ config[1].interval = Undefined
    /\ config[1].stopRetries = Undefined

NextDetached ==
    \/ AddElsewhere(1)
    \/ RemoveElsewhere(1)
    \/ StartRun
    \/ TaskSettle
    \/ TaskTimer
    \/ DriverResume

SpecDetached == InitDetached /\ [][NextDetached]_vars

\* The signals of a type that the Task.run at the driver's position emitted.
SignalsOf(type) ==
    {i \in DOMAIN signals :
        signals[i].task = chain[RunChain][pos] /\ signals[i].type = type}

\* An attempt of the Task.run at the driver's position succeeded.
ActionSucceeded == pos >= 1 /\ \E k \in DOMAIN outcomes : outcomes[k] = "ok"

\* C29: once the action of a Task.run has succeeded, it is not invoked
\* again, one success signal and no failure signal is emitted for it, and the
\* run returns (true, result): for Tasks with and without a chain, whatever
\* the observers tell the abort override.
C29_SuccessIsFinal ==
    ActionSucceeded =>
        /\ outcomes[Len(outcomes)] = "ok"
        /\ pc \in {"returned", "none"}
        /\ calls[chain[RunChain][pos]] = Len(outcomes)
        /\ ret = [kind |-> "pair", ok |-> TRUE, val |-> Data]
        /\ Cardinality(SignalsOf("taskSuccess")) = 1
        /\ Cardinality(SignalsOf("taskError")) = 0

\* C30: a Task.run that has settled resolved to a pair; after a terminal
\* failure it emitted one failure signal and the pair is (false, error):
\* also for a Task that has no chain.
C30_FailureReturnsPair ==
    (pos >= 1 /\ pc \in {"returned", "none"}) =>
        /\ ret.kind = "pair"
        /\ ~ActionSucceeded =>
              /\ ~ret.ok
              /\ Cardinality(SignalsOf("taskError")) = 1

\* ------------------------------------------------- what the steps record
\* A value that carries its tag: Success{data} or Failure{error}.
IsTagged(v) == DOMAIN v = {"success", "val"}

\* C31: the entry recorded in context.steps for an executed Task is a tagged
\* Result (Success{data} or Failure{error}), so that the entry alone tells
\* whether the Task succeeded or failed.
C31_StepsAreTagged ==
    \A l \in DOMAIN steps : IsTagged(steps[l])

\* --------------------------------------- back-reference and abort flag
\* Task t is a member of chain c's sequence.
MemberOf(t, c) == \E i \in 1..Len(chain[c]) : chain[c][i] = t

\* C32: after any sequence of editing calls a Task's back-reference is chain
\* c exactly when the Task is a member of c's sequence, and null when it is a
\* member of none; so a terminal failure during the run of a chain that no
\* observer overrides sets the abort flag of that chain and of no other.
C32_BackReferenceMatches ==
    /\ \A t \in TaskIds :
          /\ \A c \in ChainIds : owner[t] = c <=> MemberOf(t, c)
          /\ owner[t] = NoChain <=> \A c \in ChainIds : ~MemberOf(t, c)
    /\ (NoOverride /\ Failures # {}) =>
          /\ stopChain[RunChain] = Some(TRUE)
          /\ stopChain[OtherChain] = Undefined

\* ------------------------------------------- Tasks without config.inputs
\* Single-attempt Tasks with distinct labels, the first m of them added to
\* the chain; each was constructed without config.inputs (which
\* #validateInputs accepts, and the constructor stores the config as given)
\* or declares at most one input.
InitOptionalInputs ==
    /\ builder = NoBuilder
    /\ req = IdleReq
    /\ label = [t \in TaskIds |-> <<Alphabet[t]>>]
    /\ config = [t \in TaskIds |-> SingleAttempt]
    /\ declared \in [TaskIds -> {Undefined} \cup {Some(d) : d \in Declarations}]
    /\ \E m \in 1..NumTasks :
          /\ chain = [c \in ChainIds |->
                        IF c = RunChain THEN [i \in 1..m |-> i] ELSE <<>>]
          /\ owner = [t \in TaskIds |-> IF t <= m THEN RunChain ELSE NoChain]
    /\ stopChain = [c \in ChainIds |-> Undefined]
    /\ runState = "idle"
    /\ pos = 0
    /\ pc = "none"
    /\ attempt = 0
    /\ outcomes = <<>>
    /\ delays = <<>>
    /\ ret = NoRet
    /\ steps = [l \in {} |-> Data]
    /\ started = [t \in TaskIds |-> 0]
    /\ calls = [t \in TaskIds |-> 0]
    /\ signals = <<>>
    /\ last = NoCall
    /\ InitRun

NextOptionalInputs ==
    \/ \E t \in TaskIds : CallGetInputs(t)
    \/ CallGetInputTemplate(RunChain)

SpecOptionalInputs == InitOptionalInputs /\ [][NextOptionalInputs]_vars

\* The members of chain c that were constructed with config.inputs.
Declarers(c) ==
    {i \in 1..Len(chain[c]) : declared[chain[c][i]] # Undefined}

\* C33: getInputs() of a Task constructed without an inputs declaration
\* returns an empty mapping without raising, and getInputTemplate() of a
\* chain that contains such a Task succeeds and carries the names the other
\* Tasks declare.
C33_NoInputsIsEmpty ==
    \A g \in DOMAIN got :
        /\ (got[g].op = "getInputs" /\ declared[got[g].task] = Undefined) =>
              /\ ~got[g].threw
              /\ DOMAIN got[g].props = {}
        /\ got[g].op = "getInputTemplate" =>
              /\ ~got[g].threw
              /\ DOMAIN got[g].props =
                    UNION {{The(declared[chain[got[g].chain][i]])[k].name :
                               k \in DOMAIN The(declared[chain[got[g].chain][i]])} :
                           i \in Declarers(got[g].chain)}

\* ---------------------------------------------------------- termination
\* A caller holds a request builder, or Tasks in a chain (the first of which
\* it may have added to and removed from the other chain before the run).
NextLive ==
    \/ \E n \in 1..MaxRetries : WithRetries(n)
    \/ RunWith
    \/ \E o \in Outcomes : RetrySettle(o)
    \/ RetryTimer
    \/ AddElsewhere(1)
    \/ RemoveElsewhere(1)
    \/ StartRun
    \/ TaskSettle
    \/ TaskTimer
    \/ DriverResume

InitLive ==
    /\ Init
    /\ config[1].interval = Undefined
    /\ config[1].stopRetries = Undefined

\* Every awaited attempt settles, every backoff timer fires, and the driver
\* loop resumes when the Task.run it awaits has settled; what the caller
\* does is up to the caller.
SpecLive ==
    /\ InitLive
    /\ [][NextLive]_vars
    /\ WF_vars(\E o \in Outcomes : RetrySettle(o))
    /\ WF_vars(RetryTimer)
    /\ WF_vars(TaskSettle)
    /\ WF_vars(TaskTimer)
    /\ WF_vars(DriverResume)

\* C34: every chain run eventually ends, Completed or Aborted, having invoked
\* the action of each Task at most as often as its retry count, and every
\* runWithRetries call eventually returns, having invoked its operation at
\* most maxRetries times.
C34_RunsEnd ==
    /\ (runState = "running") ~> (runState \in {"completed", "aborted"})
    /\ (req.state \in {"await", "timer"}) ~> (req.state = "resolved")
    /\ [](\A t \in TaskIds : calls[t] <= TaskRetries(config[t]))
    /\ [](req.calls <= req.policy.maxRetries)
====
